---- MODULE Spec2Model ----
(***************************************************************************)
(* A model of the streaming CSV reader of simdcsv (simdcsv.go): the        *)
(* producer goroutine, the Stage 1 goroutine, the pool of two Stage 2      *)
(* workers, the output channel and the two consumers, ReadAll and Read.    *)
(*                                                                         *)
(* Bytes are their code points (44 is ',', 10 is '\n', 34 is '"').  A      *)
(* field is a sequence of bytes, a record a sequence of fields.  A mask    *)
(* word (uint64) is the set of its set bit positions, a subset of 0..63.   *)
(* Carriage returns, comment lines and leading-space trimming are left     *)
(* out of the inputs of the pipeline: none holds a '\r', a comment         *)
(* character or a space.  The quote-context resolver of one window         *)
(* (SpecMasks) and the ambiguity scanner of chunking.go (SpecChunk) are    *)
(* checked alone, each applied to its own inputs held in fn; so is         *)
(* ChunkBlob of chunking.go with its goroutines (SpecBlob).  SpecDrain is  *)
(* one call of ReadAll under fair scheduling, SpecSlow one call of ReadAll *)
(* on a long input while the first worker is held back.                    *)
(*                                                                         *)
(* SupportedCPU() is taken to be true: ReadAll and Read run the pipeline.  *)
(* stage1PreprocessBufferEx and stage2ParseBufferExStreaming are assembly  *)
(* routines outside simdcsv.go; they are modelled by what they are         *)
(* documented to compute (the masks of row terminators, separators and     *)
(* quotes per 64-byte window; the rows and columns the masks delimit).     *)
(* The channels hold ChanCap values where the code's hold 128.             *)
(***************************************************************************)
EXTENDS Integers, Sequences, FiniteSets, TLC

\* ------------------------------------------------------------------ bytes

NL    == 10
QUOTE == 34
CR    == 13
COMMA == 44
\* utf8.RuneError and unicode.MaxLatin1
RuneError == 65533
MaxLatin1 == 255

Min(a, b) == IF a < b THEN a ELSE b
Max(a, b) == IF a > b THEN a ELSE b

\* s[lo:hi] of Go: the bytes at the 0-based positions lo .. hi-1
Slice(s, lo, hi) == SubSeq(s, lo + 1, hi)

\* n copies of byte b
Rep(n, b) == [i \in 1..n |-> b]

\* ------------------------------------------------------------------ errors

NoErr           == [kind |-> "nil", line |-> 0]
errInvalidDelim == [kind |-> "InvalidDelim", line |-> 0]
ErrFieldCount(line) == [kind |-> "FieldCount", line |-> line]
ErrQuote(line)      == [kind |-> "Quote", line |-> line]
ErrBareQuote(line)  == [kind |-> "BareQuote", line |-> line]

\* ------------------------------------------------ encoding/csv (reference)

\* The first position j >= i of s holding a byte of B, Len(s)+1 when none
NextIdx(s, i, B) ==
  LET J == {j \in i..Len(s) : s[j] \in B}
  IN IF J = {} THEN Len(s) + 1 ELSE CHOOSE j \in J : \A k \in J : j <= k

\* One record is complete: the field-count rule of csv.Reader.readRecord.
\* st.fpr is the reader's FieldsPerRecord, pinned by the first record when 0.
CsvEndRecord(st, rec) ==
  IF st.fpr > 0 /\ Len(rec) # st.fpr
    THEN [st EXCEPT !.err = ErrFieldCount(st.recLine), !.recs = <<>>]
    ELSE [st EXCEPT !.recs = Append(st.recs, rec),
                    !.fpr  = IF st.fpr = 0 THEN Len(rec) ELSE st.fpr,
                    !.rec  = <<>>, !.fld = <<>>]

\* csv.Reader.ReadAll over the bytes s from position i (1-based) on: a scan
\* byte by byte (a run of ordinary bytes is taken in one step).  mode: "sol" at the start of a line, "sof" at the start of
\* a field, "unq" in a non-quoted field, "q" in a quoted field, "qq" after
\* a quote met inside a quoted field.
RECURSIVE CsvScan(_, _, _, _, _, _)
CsvScan(s, i, mode, st, comma, lazy) ==
  IF st.err # NoErr THEN st
  ELSE IF i > Len(s) THEN
    CASE mode = "sol" -> st
      [] mode = "sof" -> CsvEndRecord(st, Append(st.rec, <<>>))
      [] mode = "unq" -> CsvEndRecord(st, Append(st.rec, st.fld))
      [] mode = "q"   -> IF lazy THEN CsvEndRecord(st, Append(st.rec, st.fld))
                         ELSE [st EXCEPT !.err = ErrQuote(st.line), !.recs = <<>>]
      [] mode = "qq"  -> CsvEndRecord(st, Append(st.rec, st.fld))
  ELSE LET b == s[i] IN
    CASE mode = "sol" ->
           IF b = NL
             THEN CsvScan(s, i + 1, "sol", [st EXCEPT !.line = @ + 1], comma, lazy)
             ELSE CsvScan(s, i, "sof", [st EXCEPT !.recLine = st.line], comma, lazy)
      [] mode = "sof" ->
           IF b = QUOTE
             THEN CsvScan(s, i + 1, "q", st, comma, lazy)
             ELSE CsvScan(s, i, "unq", st, comma, lazy)
      [] mode = "unq" ->
           IF b = comma THEN
             CsvScan(s, i + 1, "sof",
                     [st EXCEPT !.rec = Append(@, st.fld), !.fld = <<>>], comma, lazy)
           ELSE IF b = NL THEN
             CsvScan(s, i + 1, "sol",
                     [CsvEndRecord(st, Append(st.rec, st.fld)) EXCEPT !.line = @ + 1],
                     comma, lazy)
           ELSE IF b = QUOTE /\ ~lazy THEN
             [st EXCEPT !.err = ErrBareQuote(st.line), !.recs = <<>>]
           ELSE IF b = QUOTE THEN
             CsvScan(s, i + 1, "unq", [st EXCEPT !.fld = Append(@, b)], comma, lazy)
           ELSE LET j == NextIdx(s, i, {comma, NL, QUOTE}) IN
             CsvScan(s, j, "unq", [st EXCEPT !.fld = @ \o SubSeq(s, i, j - 1)],
                     comma, lazy)
      [] mode = "q" ->
           IF b = QUOTE THEN CsvScan(s, i + 1, "qq", st, comma, lazy)
           ELSE IF b = NL THEN
             \* the line count grows only when a further line is read
             CsvScan(s, i + 1, "q",
                     [st EXCEPT !.fld = Append(@, b),
                                !.line = IF i < Len(s) THEN @ + 1 ELSE @], comma, lazy)
           ELSE LET j == NextIdx(s, i, {NL, QUOTE}) IN
             CsvScan(s, j, "q", [st EXCEPT !.fld = @ \o SubSeq(s, i, j - 1)],
                     comma, lazy)
      [] mode = "qq" ->
           IF b = QUOTE THEN
             CsvScan(s, i + 1, "q", [st EXCEPT !.fld = Append(@, QUOTE)], comma, lazy)
           ELSE IF b = comma THEN
             CsvScan(s, i + 1, "sof",
                     [st EXCEPT !.rec = Append(@, st.fld), !.fld = <<>>], comma, lazy)
           ELSE IF b = NL THEN
             CsvScan(s, i + 1, "sol",
                     [CsvEndRecord(st, Append(st.rec, st.fld)) EXCEPT !.line = @ + 1],
                     comma, lazy)
           ELSE IF lazy THEN
             CsvScan(s, i, "q", [st EXCEPT !.fld = Append(@, QUOTE)], comma, lazy)
           ELSE [st EXCEPT !.err = ErrQuote(st.line), !.recs = <<>>]

\* csv.NewReader(s) with Comma, LazyQuotes and FieldsPerRecord set, then
\* ReadAll: (records, err); records is nil (<<>>) when err is not nil.
CsvReadAll(s, comma, lazy, fpr) ==
  LET st == CsvScan(s, 1, "sol",
                    [recs |-> <<>>, rec |-> <<>>, fld |-> <<>>, fpr |-> fpr,
                     line |-> 1, recLine |-> 1, err |-> NoErr], comma, lazy)
  IN [records |-> st.recs, err |-> st.err]

\* encodingCsv: the scalar parser Stage 2 runs on a split row
encodingCsv(csvData, sep) == CsvReadAll(csvData, sep, FALSE, 0)

\* ------------------------------------------------------------- mask words

\* the width of a window and of a mask word
WindowBits == 64

\* bits.TrailingZeros64 and bits.LeadingZeros64 of a mask word
TrailingZeros64(m) ==
  IF m = {} THEN WindowBits ELSE CHOOSE p \in m : \A q \in m : p <= q
LeadingZeros64(m) ==
  IF m = {} THEN WindowBits
  ELSE (WindowBits - 1) - (CHOOSE p \in m : \A q \in m : p >= q)

\* the number of windows of a buffer of n bytes (the last one zero-padded)
NumWindows(n) == (n + WindowBits - 1) \div WindowBits

\* the positions (1-based) of buf that lie inside a quoted region, when the
\* buffer starts in state quoted (0 or 1): the running parity of the quotes
InsideQuotes(buf, quoted) ==
  LET QS == {j \in 1..Len(buf) : buf[j] = QUOTE}
  IN {i \in 1..Len(buf) :
        buf[i] # QUOTE /\ (quoted + Cardinality({q \in QS : q < i})) % 2 = 1}

\* Stage 1 over one chunk: the mask stream, three words a window (row
\* terminators outside quotes, field separators outside quotes, quotes),
\* bits past the end of the buffer zero, and the quoted state at its end.
stage1PreprocessBufferEx(buf, separatorChar, quoted) ==
  LET inq == InsideQuotes(buf, quoted)
      bitsOf(w, b, masked) ==
        {p \in 0..(WindowBits - 1) :
           LET i == w * WindowBits + p + 1
           IN i <= Len(buf) /\ buf[i] = b /\ (masked => i \notin inq)}
      nq == Cardinality({j \in 1..Len(buf) : buf[j] = QUOTE})
  IN [masks  |-> [k \in 1..(3 * NumWindows(Len(buf))) |->
                    LET w == (k - 1) \div 3
                    IN CASE (k - 1) % 3 = 0 -> bitsOf(w, NL, TRUE)
                         [] (k - 1) % 3 = 1 -> bitsOf(w, separatorChar, TRUE)
                         [] OTHER           -> bitsOf(w, QUOTE, FALSE)],
      quoted |-> (quoted + nq) % 2]

\* ---------------------------------------------------------------- Stage 1

\* the loop that finds the header: the zeros before the first row terminator
RECURSIVE headerLoop(_, _, _)
headerLoop(masksStream, index, header) ==
  IF index >= Len(masksStream) THEN header
  ELSE LET hr == TrailingZeros64(masksStream[index + 1])
       IN IF hr < WindowBits THEN header + hr
          ELSE headerLoop(masksStream, index + 3, header + hr)

\* the loop that finds the trailer: the zeros after the last row terminator
RECURSIVE trailerLoop(_, _, _)
trailerLoop(masksStream, index, trailer) ==
  IF index >= Len(masksStream) THEN trailer
  ELSE LET tr == LeadingZeros64(masksStream[Len(masksStream) - index + 1])
       IN IF tr < WindowBits THEN trailer + tr
          ELSE trailerLoop(masksStream, index + 3, trailer + tr)

\* the header of a chunk
chunkHeader(sequence, buf, masksStream) ==
  IF sequence > 0
    THEN LET h == headerLoop(masksStream, 0, 0)
         IN IF h = (Len(masksStream) \div 3) * WindowBits THEN Len(buf) ELSE h
    ELSE 0

\* the trailer of a chunk
chunkTrailer(last, header, buf, masksStream) ==
  IF ~last /\ header < Len(buf) THEN trailerLoop(masksStream, 3, 0) ELSE 0

\* One iteration of stage1Streaming's loop on the chunk (buf, last): the
\* ChunkInfo it dispatches and the state it carries to the next iteration.
stage1Chunk(buf, last, sequence, quoted, splitRow, comma) ==
  LET pre      == stage1PreprocessBufferEx(buf, comma, quoted)
      header   == chunkHeader(sequence, buf, pre.masks)
      trailer  == chunkTrailer(last, header, buf, pre.masks)
      splitNow == splitRow \o Slice(buf, 0, header)
  IN [info |-> IF header < Len(buf)
                 THEN [sequence |-> sequence, chunk |-> buf, masks |-> pre.masks,
                       header |-> header, trailer |-> trailer, splitRow |-> splitNow]
                 ELSE [sequence |-> sequence, chunk |-> <<>>, masks |-> <<>>,
                       header |-> 0, trailer |-> 0, splitRow |-> splitNow],
      quoted   |-> pre.quoted,
      splitRow |-> Slice(buf, Len(buf) - trailer, Len(buf)),
      sequence |-> sequence + 1]

\* ---------------------------------------------------------------- Stage 2

\* the elements of a finite set of integers in ascending order
Sorted(S) ==
  [k \in 1..Cardinality(S) |-> CHOOSE x \in S : Cardinality({y \in S : y < x}) = k - 1]

\* word &= ^((1 << shift) - 1)
clearLow(word, shift) == {p \in word : p >= shift}
\* word <<= shiftTz; word >>= shiftTz
clearHigh(word, shiftTz) == {p \in word : p < WindowBits - shiftTz}

\* the masks of a chunk clipped to leave out its header and its trailer
clipMasks(masks, header, trailer) ==
  LET skip    == header \div WindowBits
      shift   == header % WindowBits
      skipTz  == (trailer \div WindowBits) + 1
      shiftTz == trailer % WindowBits
      low  == [k \in 1..Len(masks) |->
                 IF k \in (skip * 3 + 1)..(skip * 3 + 3)
                   THEN clearLow(masks[k], shift) ELSE masks[k]]
  IN [k \in 1..Len(masks) |->
        IF k \in (Len(masks) - skipTz * 3 + 1)..(Len(masks) - skipTz * 3 + 3)
          THEN clearHigh(low[k], shiftTz) ELSE low[k]]

\* chunk[skip*0x40 : len(chunk)-trailer], the bytes handed to the parsers
payloadOf(info) ==
  Slice(info.chunk, (info.header \div WindowBits) * WindowBits,
        Len(info.chunk) - info.trailer)

\* the 0-based positions of buf that the word at offset k (0, 1 or 2) of
\* each window of masks marks
maskPositions(masks, k, n) ==
  {q \in 0..(n - 1) :
     LET w == q \div WindowBits
     IN 3 * w + k + 1 <= Len(masks) /\ (q % WindowBits) \in masks[3 * w + k + 1]}

\* the post-processor on one field: the quotes around a quoted field are
\* dropped and each "" inside it becomes "
decodeField(f) ==
  IF Len(f) >= 2 /\ f[1] = QUOTE /\ f[Len(f)] = QUOTE
    THEN LET inner == SubSeq(f, 2, Len(f) - 1)
             QS    == {j \in 1..Len(inner) : inner[j] = QUOTE}
             keep  == {j \in 1..Len(inner) :
                         inner[j] # QUOTE \/ Cardinality({q \in QS : q <= j}) % 2 = 0}
             order == Sorted(keep)
         IN [k \in 1..Len(order) |-> inner[order[k]]]
    ELSE f

\* the fields of the row buf[a .. t-1] (0-based, t excluded), cut at the
\* separator bits seps
rowFields(buf, a, t, seps) ==
  LET cuts == Sorted({q \in seps : q >= a /\ q < t})
      from(k) == IF k = 1 THEN a ELSE cuts[k - 1] + 1
      to(k)   == IF k = Len(cuts) + 1 THEN t ELSE cuts[k]
  IN [k \in 1..(Len(cuts) + 1) |-> decodeField(Slice(buf, from(k), to(k)))]

\* the rows of buf from position a on, one for each row terminator of terms
\* (from its k-th on) and one for what follows the last; empty rows are skipped
RECURSIVE rowsFrom(_, _, _, _, _)
rowsFrom(buf, a, terms, k, seps) ==
  IF k > Len(terms)
    THEN IF a < Len(buf) THEN <<rowFields(buf, a, Len(buf), seps)>> ELSE <<>>
    ELSE (IF a < terms[k] THEN <<rowFields(buf, a, terms[k], seps)>> ELSE <<>>)
         \o rowsFrom(buf, terms[k] + 1, terms, k + 1, seps)

\* the structural parser with the post-processor: the rows of the payload
\* buf read off the masks from position strData on, and whether the payload
\* ends inside a quoted region
stage2ParseBufferExStreaming(buf, masks, strData) ==
  LET terms == Sorted({q \in maskPositions(masks, 0, Len(buf)) : q >= strData})
      seps  == {q \in maskPositions(masks, 1, Len(buf)) : q >= strData}
      nq    == Cardinality({q \in maskPositions(masks, 2, Len(buf)) : q >= strData})
  IN [records      |-> rowsFrom(buf, strData, terms, 1, seps),
      parsingError |-> nq % 2 = 1]

\* Stage 2 on the payload of a ChunkInfo: lines 331-351 of stage2Streaming
parsePayload(info) ==
  LET skip    == info.header \div WindowBits
      clipped == clipMasks(info.masks, info.header, info.trailer)
  IN stage2ParseBufferExStreaming(payloadOf(info),
                                  SubSeq(clipped, skip * 3 + 1, Len(clipped)),
                                  info.header % WindowBits)

\* filterOutComments: the records whose first field starts with comment go
filterOutComments(records, comment) ==
  SelectSeq(records,
            LAMBDA rec : ~(Len(rec) > 0 /\ Len(rec[1]) > 0 /\ rec[1][1] = comment))

\* the first record of records (0-based index) whose field count is not
\* fpr, -1 when there is none: the loop of ensureFieldsPerRecord
firstMismatch(records, fpr) ==
  LET bad == {i \in 1..Len(records) : Len(records[i]) # fpr}
  IN IF bad = {} THEN -1 ELSE (CHOOSE i \in bad : \A j \in bad : i <= j) - 1

\* ----------------------------------------------------------- the Reader

\* validDelim; utf8.ValidRune is spelled out
validDelim(r) ==
  /\ r # 0 /\ r # QUOTE /\ r # CR /\ r # NL
  /\ ((0 <= r /\ r < 55296) \/ (57343 < r /\ r <= 1114111))
  /\ r # RuneError

\* a variant of the condition of line 150 without its first test
invalidDelimsNoEqual(Comma, Comment) ==
  ~validDelim(Comma) \/ (Comment # 0 /\ ~validDelim(Comment))

\* the condition of line 150: the delimiters are rejected
invalidDelims(Comma, Comment) ==
  Comma = Comment \/ ~validDelim(Comma) \/ (Comment # 0 /\ ~validDelim(Comment))

\* the condition of line 159: the whole stream goes to encoding/csv
wholeFallback(LazyQuotes, Comma, Comment) ==
  \/ LazyQuotes
  \/ (Comma # 0 /\ Comma > MaxLatin1)
  \/ (Comment # 0 /\ Comment > MaxLatin1)

\* the capacity of the output channel, and so of the two other channels;
\* 128 in the code, kept small here so that full channels are reached
ChanCap == 2
\* chunkSize of readAllStreaming, the most one read returns
ChunkSize == 320000
\* the number of Stage 2 workers
Cores == 2
Workers == 1..Cores

\* the sizes of the reads that return less than what is left of the input
\* (whole windows; a read of what is left is always possible)
ReadSizes == {2 * WindowBits}

\* fallback(ioReader): encoding/csv with the Reader's settings on bytes
fallback(bytes, c) ==
  LET r == CsvReadAll(bytes, c.Comma, c.LazyQuotes, c.FieldsPerRecord)
  IN [sequence |-> -1, records |-> r.records, err |-> r.err]

\* ------------------------------------------------------------- the inputs

X(n) == Rep(n, 120)
\* "a,x..x\n" and the start of a second row "b,x..x": 128 bytes, the last
\* row terminator in the second window
HeadChunk == <<97, COMMA>> \o X(100) \o <<NL>> \o <<98, COMMA>> \o X(23)
\* the end of a row, a full row and the start of another: 128 bytes
MidChunk == X(10) \o <<NL>> \o <<99, COMMA>> \o X(90) \o <<NL>> \o <<100, COMMA>> \o X(22)
\* the end of a row and a last row
TailChunk == <<121, 121, NL, 101, COMMA, 102, NL>>

\* the C6 example: a,b,c\n1,2\n
InSmall == <<97, COMMA, 98, COMMA, 99, NL, 49, COMMA, 50, NL>>
\* three chunks, every row of two fields, two rows across chunk boundaries
InPlain == HeadChunk \o MidChunk \o TailChunk
\* a row longer than a chunk: the middle 128 bytes hold no row terminator
InLong == HeadChunk \o X(128) \o TailChunk
\* the second chunk starts at a row terminator and holds rows of three fields
InWide == HeadChunk \o <<NL, 99, COMMA, 100, COMMA, 101, NL, 102, COMMA, 103, COMMA, 104, NL>>
\* a row of one field in the second chunk, after rows of two fields
InNarrow == HeadChunk \o X(70) \o <<NL, 99, NL, 100, COMMA, 101, NL>>
\* a quoted field, holding a row terminator, across the chunk boundary
InQuoted == <<97, COMMA>> \o X(100) \o <<NL>> \o <<98, COMMA, QUOTE>> \o X(22)
            \o X(3) \o <<NL>> \o X(2) \o <<QUOTE, NL, 99, COMMA, 100, NL>>
\* a quote opened and never closed
InOpen == <<97, COMMA, 98, NL, QUOTE, 99, COMMA, 100, NL>>
\* a bare quote in the row across the chunk boundary
InBare == <<97, COMMA>> \o X(100) \o <<NL>> \o <<98, COMMA, 120, QUOTE>> \o X(21)
          \o <<121, QUOTE, 122, NL, 99, COMMA, 100, NL>>
\* a quote inside a non-quoted field: read with LazyQuotes only
InLazy == <<97, QUOTE, 98, COMMA, 99, NL, 100, COMMA, 101, NL>>

\* a row of two fields, then a row of three fields across the chunk boundary
InUneven == <<97, COMMA>> \o X(100) \o <<NL>> \o <<98, COMMA, 99, COMMA>> \o X(21)
            \o <<121, NL, 100, COMMA, 101, NL>>

\* the only row terminator of the first chunk is in its first window
InEarly == <<97, COMMA, 98, NL, 99, COMMA>> \o X(122)
           \o X(5) \o <<NL, 101, COMMA, 102, NL>>

\* five chunks of two rows of one field each
InMany == [i \in 1..640 |-> IF i % WindowBits = 0 THEN NL ELSE 120]

Cfg(comma, comment, fpr, lazy) ==
  [Comma |-> comma, Comment |-> comment, FieldsPerRecord |-> fpr, LazyQuotes |-> lazy]

\* the inputs read from a source that returns its last bytes together with
\* io.EOF, as the io.Reader contract allows
EofReads ==
  { [input |-> InSmall, cfg |-> Cfg(COMMA, 0, 0, FALSE)],
    [input |-> InPlain, cfg |-> Cfg(COMMA, 0, 0, FALSE)] }

\* inputs whose source fails: after 200 bytes, and at the first read
FailingReads ==
  { [input |-> InPlain, cfg |-> Cfg(COMMA, 0, 0, FALSE), failAt |-> 200],
    [input |-> InSmall, cfg |-> Cfg(COMMA, 0, 0, FALSE), failAt |-> 0],
    [input |-> InLazy,  cfg |-> Cfg(COMMA, 0, 0, TRUE),  failAt |-> 5] }

\* the inputs with the Reader settings they are read under
Scenarios ==
  { [input |-> InSmall,  cfg |-> Cfg(COMMA, 0, 3, FALSE)],
    [input |-> InSmall,  cfg |-> Cfg(COMMA, 0, 0, FALSE)],
    [input |-> InPlain,  cfg |-> Cfg(COMMA, 0, 0, FALSE)],
    [input |-> InPlain,  cfg |-> Cfg(COMMA, 0, 2, FALSE)],
    [input |-> InLong,   cfg |-> Cfg(COMMA, 0, -1, FALSE)],
    [input |-> InWide,   cfg |-> Cfg(COMMA, 0, 0, FALSE)],
    [input |-> InNarrow, cfg |-> Cfg(COMMA, 0, 2, FALSE)],
    [input |-> InQuoted, cfg |-> Cfg(COMMA, 0, 0, FALSE)],
    [input |-> InOpen,   cfg |-> Cfg(COMMA, 0, 0, FALSE)],
    [input |-> InBare,   cfg |-> Cfg(COMMA, 0, 0, FALSE)],
    [input |-> InLazy,   cfg |-> Cfg(COMMA, 0, 0, TRUE)],
    [input |-> InMany,   cfg |-> Cfg(COMMA, 0, 2, FALSE)],
    [input |-> InUneven, cfg |-> Cfg(COMMA, 0, 0, FALSE)],
    [input |-> InEarly,  cfg |-> Cfg(COMMA, 0, 0, FALSE)],
    [input |-> <<>>,     cfg |-> Cfg(COMMA, 0, 0, FALSE)],
    [input |-> InSmall,  cfg |-> Cfg(COMMA, COMMA, 0, FALSE)],
    [input |-> InSmall,  cfg |-> Cfg(NL, 0, 0, FALSE)],
    [input |-> InSmall,  cfg |-> Cfg(0, 35, 0, FALSE)],
    [input |-> InSmall,  cfg |-> Cfg(COMMA, QUOTE, 0, FALSE)],
    [input |-> InSmall,  cfg |-> Cfg(55296, 0, 0, FALSE)],
    [input |-> InSmall,  cfg |-> Cfg(COMMA, RuneError, 0, TRUE)] }

\* -------------------------------------------------------------- the state

VARIABLES
  input,            \* the bytes of the input source r.r
  failAt,           \* the offset at which a read of the source fails, -1: never
  eofWithData,      \* the source returns its last bytes together with io.EOF
  fn,               \* the argument and the result of a function applied alone
  cfg,              \* Comma, Comment, FieldsPerRecord, LazyQuotes of the Reader
  mode,             \* "ReadAll": one call of ReadAll; "Read": calls of Read;
                    \* "ReadThenAll": calls of Read, then one call of ReadAll
  rpos,             \* the number of bytes read from r.r so far
  IsStreaming,      \* Reader.IsStreaming
  prod,             \* the producer goroutine: pc, chunk (held), send (pending),
                    \* reads, the history of the sizes its reads returned,
                    \* and emitted, the history of what it sent on bufchan
  bufchan,          \* the byte channel: q, closed
  st1,              \* stage1Streaming: pc, sequence, quoted, splitRow, send
  chunks,           \* the chunk-info channel: q, closed
  wk,               \* stage2Streaming of each worker: pc, info, simdrecords, send
  fieldsPerRecord,  \* the counter the workers share
  pool,             \* the goroutine that waits for the workers and closes out
  egor,             \* the goroutine of the two early exits: pc, send
  out,              \* the output channel: q, closed
  cons,             \* the consumer: ReadAll's locals, or the Reader's fields Read uses
  result,           \* what the consumer got in the end: done, records, err
  sent,             \* history: every value sent on out by the current pipeline
  pipelines,        \* history: how many times readAllStreaming was entered
  runs              \* history: the outcome of each earlier run on this input

vars == <<input, failAt, eofWithData, fn, cfg, mode, rpos, IsStreaming, prod, bufchan, st1, chunks, wk,
          fieldsPerRecord, pool, egor, out, cons, result, sent, pipelines, runs>>

EmptyChan == [q |-> <<>>, closed |-> FALSE]
NoInfo == [sequence |-> -1, chunk |-> <<>>, masks |-> <<>>, header |-> 0,
           trailer |-> 0, splitRow |-> <<>>]
NoOut == [sequence |-> -1, records |-> <<>>, err |-> NoErr, src |-> -1]
EOF == [kind |-> "EOF", line |-> 0]
\* an error of the input source other than io.EOF
ErrRead == [kind |-> "Read", line |-> 0]

IdleProd == [pc |-> "idle", chunk |-> <<>>, send |-> [buf |-> <<>>, last |-> FALSE],
             reads |-> <<>>, err |-> NoErr, emitted |-> <<>>]
IdleSt1 == [pc |-> "idle", sequence |-> 0, quoted |-> 0, splitRow |-> <<>>, send |-> NoInfo]
IdleWk == [pc |-> "idle", info |-> NoInfo, simdrecords |-> <<>>, send |-> NoOut,
           stop |-> FALSE]
IdleEgor == [pc |-> "idle", send |-> NoOut]
IdleCons == [pc |-> "idle", records |-> <<>>, hash |-> <<>>, sequence |-> 0,
             currrecord |-> 0, err |-> NoErr, got |-> <<>>, tags |-> <<>>,
             all |-> FALSE]

\* no function is applied alone
NoFn == [op |-> "none"]

\* the state NewReader leaves: nothing read, no goroutine started
NewReader ==
  /\ rpos = 0
  /\ IsStreaming = FALSE
  /\ prod = IdleProd
  /\ bufchan = EmptyChan
  /\ st1 = IdleSt1
  /\ chunks = EmptyChan
  /\ wk = [w \in Workers |-> IdleWk]
  /\ fieldsPerRecord = 0
  /\ pool = "idle"
  /\ egor = IdleEgor
  /\ out = EmptyChan
  /\ cons = IdleCons
  /\ result = [done |-> FALSE, records |-> <<>>, err |-> NoErr]
  /\ sent = <<>>
  /\ pipelines = 0
  /\ runs = <<>>

Init ==
  /\ \/ /\ \E sc \in Scenarios : input = sc.input /\ cfg = sc.cfg
        /\ failAt = -1 /\ eofWithData = FALSE
     \/ /\ \E sc \in EofReads : input = sc.input /\ cfg = sc.cfg
        /\ failAt = -1 /\ eofWithData = TRUE
     \/ \E sc \in FailingReads :
          input = sc.input /\ cfg = sc.cfg /\ failAt = sc.failAt
                                             /\ eofWithData = FALSE
  /\ mode \in {"ReadAll", "Read", "ReadThenAll"}
  /\ NewReader
  /\ fn = NoFn

\* the offset at which the reads of r.r stop: the failure, or the end
srcEnd == IF failAt >= 0 THEN failAt ELSE Len(input)

\* what the read that finds nothing more returns: an error, or io.EOF
srcErr == IF failAt >= 0 THEN ErrRead ELSE EOF

\* ------------------------------------------------------ readAllStreaming

\* readAllStreaming called with IsStreaming false: a new output channel and
\* the goroutines of one of its three branches.  The goroutines and
\* channels of an earlier call are dropped from the state: nothing reads
\* the earlier output channel any more.
readAllStreaming ==
  /\ out' = EmptyChan
  /\ sent' = <<>>
  /\ bufchan' = EmptyChan
  /\ chunks' = EmptyChan
  /\ pipelines' = pipelines + 1
  /\ IF invalidDelims(cfg.Comma, cfg.Comment) THEN
       /\ egor' = [pc |-> "send",
                   send |-> [sequence |-> -1, records |-> <<>>,
                             err |-> errInvalidDelim, src |-> -1]]
       /\ IsStreaming' = FALSE
       /\ prod' = IdleProd /\ st1' = IdleSt1 /\ pool' = "idle"
       /\ wk' = [w \in Workers |-> IdleWk]
       /\ UNCHANGED <<fieldsPerRecord, rpos>>
     ELSE IF wholeFallback(cfg.LazyQuotes, cfg.Comma, cfg.Comment) THEN
       /\ egor' = [pc |-> "read", send |-> NoOut]
       /\ IsStreaming' = FALSE
       /\ prod' = IdleProd /\ st1' = IdleSt1 /\ pool' = "idle"
       /\ wk' = [w \in Workers |-> IdleWk]
       /\ UNCHANGED <<fieldsPerRecord, rpos>>
     ELSE
       /\ IsStreaming' = TRUE
       /\ egor' = IdleEgor
       /\ prod' = [IdleProd EXCEPT !.pc = "first"]
       /\ st1' = [IdleSt1 EXCEPT !.pc = "recv"]
       /\ wk' = [w \in Workers |-> [IdleWk EXCEPT !.pc = "recv"]]
       /\ pool' = "wait"
       /\ fieldsPerRecord' = cfg.FieldsPerRecord
       /\ UNCHANGED rpos

\* ------------------------------------------------------------ the producer

\* what a read of r.r may return when rem bytes are left: a short read of
\* whole windows, or all that is left (at most ChunkSize)
ReadChoices(rem) ==
  {n \in ReadSizes : n < rem /\ n <= ChunkSize} \cup {Min(rem, ChunkSize)}

\* br.Read(chunk) of a bufio.Reader with an empty buffer and len(chunk) at
\* least its buffer size hands over what the source's Read returned, the
\* error included: the read that returns the last n bytes returns io.EOF too
dataWithEOF(n) == eofWithData /\ failAt < 0 /\ n = srcEnd - rpos

\* the first read (lines 189-197): at end of input, and on an error of
\* the source (which is logged), the goroutine returns; it returns on
\* err == io.EOF whatever n is, the bytes read are not sent
P_First ==
  /\ prod.pc = "first"
  /\ IF rpos = srcEnd
       THEN prod' = [prod EXCEPT !.pc = "close", !.err = srcErr] /\ UNCHANGED rpos
       ELSE \E n \in ReadChoices(srcEnd - rpos) :
              /\ prod' = IF dataWithEOF(n)
                           THEN [prod EXCEPT !.pc = "close", !.err = EOF,
                                             !.reads = Append(@, n)]
                           ELSE [prod EXCEPT !.pc = "loop", !.reads = Append(@, n),
                                             !.chunk = Slice(input, rpos, rpos + n)]
              /\ rpos' = rpos + n
  /\ UNCHANGED <<input, failAt, eofWithData, fn, cfg, mode, IsStreaming, bufchan, st1, chunks, wk,
                 fieldsPerRecord, pool, egor, out, cons, result, sent, pipelines, runs>>

\* the read of the loop (lines 200-216): it decides what is sent; at end
\* of input, and on an error of the source (which is logged), the chunk
\* held is sent as the last.  io.EOF with n > 0 is the panic of line 205:
\* the program ends, the producer and the caller take no further step.
P_Read ==
  /\ prod.pc = "loop"
  /\ IF rpos = srcEnd
       THEN /\ prod' = [prod EXCEPT !.pc = "sendlast", !.err = srcErr,
                                    !.send = [buf |-> prod.chunk, last |-> TRUE]]
            /\ UNCHANGED <<rpos, cons>>
       ELSE \E n \in ReadChoices(srcEnd - rpos) :
              /\ rpos' = rpos + n
              /\ IF dataWithEOF(n)
                   THEN /\ prod' = [prod EXCEPT !.pc = "panic", !.err = EOF,
                                                !.reads = Append(@, n)]
                        /\ cons' = [cons EXCEPT !.pc = "exit"]
                   ELSE /\ prod' = [prod EXCEPT !.pc = "send",
                                      !.send = [buf |-> prod.chunk, last |-> FALSE],
                                      !.reads = Append(@, n),
                                      !.chunk = Slice(input, rpos, rpos + n)]
                        /\ UNCHANGED cons
  /\ UNCHANGED <<input, failAt, eofWithData, fn, cfg, mode, IsStreaming, bufchan, st1, chunks, wk,
                 fieldsPerRecord, pool, egor, out, result, sent, pipelines, runs>>

\* bufchan <- chunkIn{chunk, last}
P_Send ==
  /\ prod.pc \in {"send", "sendlast"}
  /\ Len(bufchan.q) < ChanCap
  /\ bufchan' = [bufchan EXCEPT !.q = Append(@, prod.send)]
  /\ prod' = [prod EXCEPT !.pc = IF prod.pc = "send" THEN "loop" ELSE "close",
                          !.send = IdleProd.send,
                          !.emitted = Append(@, prod.send)]
  /\ UNCHANGED <<input, failAt, eofWithData, fn, cfg, mode, rpos, IsStreaming, st1, chunks, wk,
                 fieldsPerRecord, pool, egor, out, cons, result, sent, pipelines, runs>>

\* the deferred function, first statement: close(bufchan)
P_Close ==
  /\ prod.pc = "close"
  /\ bufchan' = [bufchan EXCEPT !.closed = TRUE]
  /\ prod' = [prod EXCEPT !.pc = "unset", !.chunk = <<>>]
  /\ UNCHANGED <<input, failAt, eofWithData, fn, cfg, mode, rpos, IsStreaming, st1, chunks, wk,
                 fieldsPerRecord, pool, egor, out, cons, result, sent, pipelines, runs>>

\* the deferred function, second statement: r.IsStreaming = false
P_Unset ==
  /\ prod.pc = "unset"
  /\ IsStreaming' = FALSE
  /\ prod' = [prod EXCEPT !.pc = "done"]
  /\ UNCHANGED <<input, failAt, eofWithData, fn, cfg, mode, rpos, bufchan, st1, chunks, wk,
                 fieldsPerRecord, pool, egor, out, cons, result, sent, pipelines, runs>>

\* ----------------------------------------------------------------- Stage 1

\* one chunk received from bufchan and preprocessed
S1_Recv ==
  /\ st1.pc = "recv"
  /\ bufchan.q # <<>>
  /\ LET c == Head(bufchan.q)
         r == stage1Chunk(c.buf, c.last, st1.sequence, st1.quoted, st1.splitRow,
                          cfg.Comma)
     IN st1' = [pc |-> "send", sequence |-> r.sequence, quoted |-> r.quoted,
                splitRow |-> r.splitRow, send |-> r.info]
  /\ bufchan' = [bufchan EXCEPT !.q = Tail(@)]
  /\ UNCHANGED <<input, failAt, eofWithData, fn, cfg, mode, rpos, IsStreaming, prod, chunks, wk,
                 fieldsPerRecord, pool, egor, out, cons, result, sent, pipelines, runs>>

\* chunks <- chunkInfo{...}
S1_Send ==
  /\ st1.pc = "send"
  /\ Len(chunks.q) < ChanCap
  /\ chunks' = [chunks EXCEPT !.q = Append(@, st1.send)]
  /\ st1' = [st1 EXCEPT !.pc = "recv", !.send = NoInfo]
  /\ UNCHANGED <<input, failAt, eofWithData, fn, cfg, mode, rpos, IsStreaming, prod, bufchan, wk,
                 fieldsPerRecord, pool, egor, out, cons, result, sent, pipelines, runs>>

\* bufchan is closed and empty: the loop ends, the deferred close(chunks)
S1_Close ==
  /\ st1.pc = "recv"
  /\ bufchan.q = <<>> /\ bufchan.closed
  /\ chunks' = [chunks EXCEPT !.closed = TRUE]
  /\ st1' = [st1 EXCEPT !.pc = "done"]
  /\ UNCHANGED <<input, failAt, eofWithData, fn, cfg, mode, rpos, IsStreaming, prod, bufchan, wk,
                 fieldsPerRecord, pool, egor, out, cons, result, sent, pipelines, runs>>

\* ----------------------------------------------------------------- Stage 2

\* the output a worker sends for its chunk when nothing failed (lines 382-399)
\* C19 mutant: every output numbered 0
chunkOutputZero(info, simdrecords) ==
  [sequence |-> 0,
   records  |-> IF cfg.Comment # 0
                  THEN filterOutComments(simdrecords, cfg.Comment) ELSE simdrecords,
   err      |-> NoErr,
   src      |-> info.sequence]

chunkOutput(info, simdrecords) ==
  [sequence |-> info.sequence,
   records  |-> IF cfg.Comment # 0
                  THEN filterOutComments(simdrecords, cfg.Comment) ELSE simdrecords,
   err      |-> NoErr,
   src      |-> info.sequence]

\* out <- fallback(payload) of lines 353 and 377
fallbackOutput(info) ==
  LET f == fallback(payloadOf(info), cfg)
  IN [sequence |-> f.sequence, records |-> f.records, err |-> f.err,
      src |-> info.sequence]

\* a ChunkInfo received: the split row, then the payload (lines 310-355)
W_Recv(w) ==
  /\ wk[w].pc = "recv"
  /\ chunks.q # <<>>
  /\ LET info  == Head(chunks.q)
         split == IF Len(info.splitRow) > 0
                    THEN encodingCsv(info.splitRow, cfg.Comma)
                    ELSE [records |-> <<>>, err |-> NoErr]
         parse == parsePayload(info)
     IN wk' = [wk EXCEPT ![w] =
          IF split.err # NoErr THEN
            [pc |-> "send", info |-> info, simdrecords |-> <<>>, stop |-> TRUE,
             send |-> [sequence |-> -1, records |-> <<>>, err |-> split.err,
                       src |-> info.sequence]]
          ELSE IF info.chunk = <<>> THEN
            [pc |-> "send", info |-> info, simdrecords |-> split.records,
             stop |-> FALSE, send |-> chunkOutput(info, split.records)]
          ELSE IF parse.parsingError THEN
            [pc |-> "send", info |-> info, simdrecords |-> split.records,
             stop |-> TRUE, send |-> fallbackOutput(info)]
          ELSE
            [pc |-> "load1", info |-> info,
             simdrecords |-> split.records \o parse.records,
             stop |-> FALSE, send |-> NoOut]]
  /\ chunks' = [chunks EXCEPT !.q = Tail(@)]
  /\ UNCHANGED <<input, failAt, eofWithData, fn, cfg, mode, rpos, IsStreaming, prod, bufchan, st1,
                 fieldsPerRecord, pool, egor, out, cons, result, sent, pipelines, runs>>

\* ensureFieldsPerRecord, the first atomic load (line 569)
W_Load1(w) ==
  /\ wk[w].pc = "load1"
  /\ wk' = [wk EXCEPT ![w].pc =
              IF fieldsPerRecord = 0 /\ Len(wk[w].simdrecords) > 0
                THEN "store" ELSE "load2"]
  /\ UNCHANGED <<input, failAt, eofWithData, fn, cfg, mode, rpos, IsStreaming, prod, bufchan, st1, chunks,
                 fieldsPerRecord, pool, egor, out, cons, result, sent, pipelines, runs>>

\* ensureFieldsPerRecord, the atomic store (line 571)
W_Store(w) ==
  /\ wk[w].pc = "store"
  /\ fieldsPerRecord' = Len(wk[w].simdrecords[1])
  /\ wk' = [wk EXCEPT ![w].pc = "load2"]
  /\ UNCHANGED <<input, failAt, eofWithData, fn, cfg, mode, rpos, IsStreaming, prod, bufchan, st1, chunks,
                 pool, egor, out, cons, result, sent, pipelines, runs>>

\* the verdict of ensureFieldsPerRecord on what the second load returned
fieldsVerdict(simdrecords, fpr) ==
  fpr > 0 /\ firstMismatch(simdrecords, fpr) # -1

\* ensureFieldsPerRecord, the second atomic load and the check (lines
\* 575-584), and what stage2Streaming makes of it (lines 376-399)
W_Load2(w) ==
  /\ wk[w].pc = "load2"
  /\ wk' = [wk EXCEPT ![w] =
              IF fieldsVerdict(wk[w].simdrecords, fieldsPerRecord)
                THEN [@ EXCEPT !.pc = "send", !.stop = TRUE,
                               !.send = fallbackOutput(wk[w].info)]
                ELSE [@ EXCEPT !.pc = "send",
                               !.send = chunkOutput(wk[w].info, wk[w].simdrecords)]]
  /\ UNCHANGED <<input, failAt, eofWithData, fn, cfg, mode, rpos, IsStreaming, prod, bufchan, st1, chunks,
                 fieldsPerRecord, pool, egor, out, cons, result, sent, pipelines, runs>>

\* out <- recordsOutput{...}; after an error or a fallback the worker returns
W_Send(w) ==
  /\ wk[w].pc = "send"
  /\ Len(out.q) < ChanCap
  /\ out' = [out EXCEPT !.q = Append(@, wk[w].send)]
  /\ sent' = Append(sent, wk[w].send)
  /\ wk' = [wk EXCEPT ![w] = [IdleWk EXCEPT !.pc = IF wk[w].stop THEN "done" ELSE "recv"]]
  /\ UNCHANGED <<input, failAt, eofWithData, fn, cfg, mode, rpos, IsStreaming, prod, bufchan, st1, chunks,
                 fieldsPerRecord, pool, egor, cons, result, pipelines, runs>>

\* chunks is closed and empty: the worker returns (wg.Done)
W_Done(w) ==
  /\ wk[w].pc = "recv"
  /\ chunks.q = <<>> /\ chunks.closed
  /\ wk' = [wk EXCEPT ![w].pc = "done"]
  /\ UNCHANGED <<input, failAt, eofWithData, fn, cfg, mode, rpos, IsStreaming, prod, bufchan, st1, chunks,
                 fieldsPerRecord, pool, egor, out, cons, result, sent, pipelines, runs>>

\* wg.Wait() returns; close(out)
Pool_Close ==
  /\ pool = "wait"
  /\ \A w \in Workers : wk[w].pc = "done"
  /\ pool' = "done"
  /\ out' = [out EXCEPT !.closed = TRUE]
  /\ UNCHANGED <<input, failAt, eofWithData, fn, cfg, mode, rpos, IsStreaming, prod, bufchan, st1, chunks, wk,
                 fieldsPerRecord, egor, cons, result, sent, pipelines, runs>>

\* ------------------------------------------- the goroutine of an early exit

\* fallback(r.r): encoding/csv reads all that is left of the input; when
\* the source fails it has parsed the lines that ended before the failure
\* and returns the error of the source and no records
E_Read ==
  /\ egor.pc = "read"
  /\ LET got  == Slice(input, rpos, srcEnd)
         nls  == {i \in 1..Len(got) : got[i] = NL}
         whole == IF failAt < 0 THEN got
                  ELSE IF nls = {} THEN <<>>
                  ELSE SubSeq(got, 1, CHOOSE i \in nls : \A j \in nls : j <= i)
         f    == fallback(whole, cfg)
     IN egor' = [pc |-> "send",
                 send |-> [sequence |-> f.sequence,
                           records |-> IF failAt >= 0 THEN <<>> ELSE f.records,
                           err |-> IF failAt >= 0 /\ f.err = NoErr
                                     THEN ErrRead ELSE f.err,
                           src |-> -1]]
  /\ rpos' = srcEnd
  /\ UNCHANGED <<input, failAt, eofWithData, fn, cfg, mode, IsStreaming, prod, bufchan, st1, chunks, wk,
                 fieldsPerRecord, pool, out, cons, result, sent, pipelines, runs>>

E_Send ==
  /\ egor.pc = "send"
  /\ Len(out.q) < ChanCap
  /\ out' = [out EXCEPT !.q = Append(@, egor.send)]
  /\ sent' = Append(sent, egor.send)
  /\ egor' = [pc |-> "close", send |-> NoOut]
  /\ UNCHANGED <<input, failAt, eofWithData, fn, cfg, mode, rpos, IsStreaming, prod, bufchan, st1, chunks, wk,
                 fieldsPerRecord, pool, cons, result, pipelines, runs>>

E_Close ==
  /\ egor.pc = "close"
  /\ out' = [out EXCEPT !.closed = TRUE]
  /\ egor' = [egor EXCEPT !.pc = "done"]
  /\ UNCHANGED <<input, failAt, eofWithData, fn, cfg, mode, rpos, IsStreaming, prod, bufchan, st1, chunks, wk,
                 fieldsPerRecord, pool, cons, result, sent, pipelines, runs>>

\* --------------------------------------------------------------- ReadAll

hashPut(h, key, v) == [k \in DOMAIN h \cup {key} |-> IF k = key THEN v ELSE h[k]]
hashDel(h, key) == [k \in DOMAIN h \ {key} |-> h[k]]

\* records = append(records, rcrds.records...); sequence++ (lines 449-450);
\* tags notes the chunk each appended record came from
raAppend(c, v) ==
  [c EXCEPT !.records = @ \o v.records,
            !.tags = @ \o Rep(Len(v.records), v.src),
            !.sequence = @ + 1]

\* the loop of lines 453-461: the held outputs that are next in sequence
RECURSIVE raFlush(_)
raFlush(c) ==
  IF c.sequence \in DOMAIN c.hash
    THEN raFlush([raAppend(c, c.hash[c.sequence]) EXCEPT
                    !.hash = hashDel(c.hash, c.sequence)])
    ELSE c

\* whether ReadAll holds back the output numbered n (line 444)
raHolds(n, sequence) == n > sequence

\* the body of ReadAll's loop for one output without error (lines 443-461)
raTake(c, v) ==
  IF raHolds(v.sequence, c.sequence)
    THEN [c EXCEPT !.hash = hashPut(@, v.sequence, v)]
    ELSE raFlush(raAppend(c, v))

\* a variant of ReadAll that returns an error without the loop of lines 437-439
raReturnsAtOnce == FALSE

\* whether ReadAll drains the channel before it returns an error (lines 437-439)
raDrains == TRUE

\* ReadAll is called: readAllStreaming, then the loop over out
RA_Call ==
  /\ mode = "ReadAll"
  /\ cons.pc = "idle"
  /\ ~IsStreaming
  /\ readAllStreaming
  /\ cons' = [IdleCons EXCEPT !.pc = "recv"]
  /\ UNCHANGED <<input, failAt, eofWithData, fn, cfg, mode, result, runs>>

\* ReadAll is called after calls of Read have returned records.  With
\* IsStreaming true readAllStreaming returns nil (lines 132-134) and the
\* loop of line 434 ranges over a nil channel, which never ends; otherwise
\* a new pipeline is started and ReadAll collects what it sends.
RA_After ==
  /\ mode = "ReadThenAll"
  /\ cons.pc = "idle"
  /\ cons.got # <<>>
  /\ IF IsStreaming
       THEN /\ cons' = [cons EXCEPT !.pc = "nil", !.all = TRUE]
            /\ UNCHANGED <<rpos, IsStreaming, prod, bufchan, st1, chunks, wk,
                           fieldsPerRecord, pool, egor, out, sent, pipelines>>
       ELSE /\ readAllStreaming
            /\ cons' = [IdleCons EXCEPT !.pc = "recv", !.all = TRUE,
                                        !.got = cons.got]
  /\ UNCHANGED <<input, failAt, eofWithData, fn, cfg, mode, result, runs>>

\* one output received by the loop of line 434
RA_Recv ==
  /\ cons.pc = "recv"
  /\ out.q # <<>>
  /\ LET v == Head(out.q)
     IN IF v.err # NoErr
          THEN IF raDrains
                 THEN /\ cons' = [cons EXCEPT !.pc = "drain", !.err = v.err]
                      /\ UNCHANGED result
                 ELSE /\ cons' = [cons EXCEPT !.pc = "done", !.err = v.err]
                      /\ result' = [done |-> TRUE, records |-> <<>>, err |-> v.err]
          ELSE /\ cons' = raTake(cons, v)
               /\ UNCHANGED result
  /\ out' = [out EXCEPT !.q = Tail(@)]
  /\ UNCHANGED <<input, failAt, eofWithData, fn, cfg, mode, rpos, IsStreaming, prod, bufchan, st1, chunks, wk,
                 fieldsPerRecord, pool, egor, sent, pipelines, runs>>

\* out is closed and empty: ReadAll returns its records (lines 464-468)
RA_Return ==
  /\ cons.pc = "recv"
  /\ out.q = <<>> /\ out.closed
  /\ cons' = [cons EXCEPT !.pc = "done"]
  /\ result' = [done |-> TRUE, records |-> cons.records, err |-> NoErr]
  /\ UNCHANGED <<input, failAt, eofWithData, fn, cfg, mode, rpos, IsStreaming, prod, bufchan, st1, chunks, wk,
                 fieldsPerRecord, pool, egor, out, sent, pipelines, runs>>

\* the drain loop of lines 437-439 receives and drops one output
RA_Drain ==
  /\ cons.pc = "drain"
  /\ out.q # <<>>
  /\ out' = [out EXCEPT !.q = Tail(@)]
  /\ UNCHANGED <<input, failAt, eofWithData, fn, cfg, mode, rpos, IsStreaming, prod, bufchan, st1, chunks, wk,
                 fieldsPerRecord, pool, egor, cons, result, sent, pipelines, runs>>

\* out is closed and empty in the drain loop: return nil, rcrds.err
RA_Fail ==
  /\ cons.pc = "drain"
  /\ out.q = <<>> /\ out.closed
  /\ cons' = [cons EXCEPT !.pc = "done"]
  /\ result' = [done |-> TRUE, records |-> <<>>, err |-> cons.err]
  /\ UNCHANGED <<input, failAt, eofWithData, fn, cfg, mode, rpos, IsStreaming, prod, bufchan, st1, chunks, wk,
                 fieldsPerRecord, pool, egor, out, sent, pipelines, runs>>

\* ------------------------------------------------------------------ Read

\* the first loop of nextblock (lines 516-532): the held outputs from
\* r.sequence on.  what: "block" (a block of records is next), "err" (an
\* error is next), "none" (nothing held for r.sequence).
RECURSIVE nbHeld(_)
nbHeld(c) ==
  IF c.sequence \in DOMAIN c.hash
    THEN LET rcrds == c.hash[c.sequence]
             c1    == [c EXCEPT !.sequence = @ + 1]
         IN IF Len(rcrds.records) = 0 THEN nbHeld(c1)
            ELSE IF rcrds.err # NoErr
              THEN [what |-> "err", c |-> [c1 EXCEPT !.err = rcrds.err]]
              ELSE [what |-> "block",
                    c |-> [c1 EXCEPT !.currrecord = 0, !.records = rcrds.records]]
    ELSE [what |-> "none", c |-> c]

\* Read hands r.records[r.currrecord] to its caller (lines 502-504)
rdYield(c) ==
  [c EXCEPT !.got = Append(@, c.records[c.currrecord + 1]),
            !.currrecord = @ + 1,
            !.pc = "idle"]

\* whether nextblock takes the output numbered n as the next block (line 538)
nbNext(n, sequence) == n = sequence

\* Read is called (lines 488-504, and the first loop of nextblock)
Rd_Call ==
  /\ mode \in {"Read", "ReadThenAll"}
  /\ cons.pc = "idle"
  /\ LET c0 == IF ~IsStreaming
                 THEN [cons EXCEPT !.records = <<>>, !.hash = <<>>,
                                   !.currrecord = 0, !.sequence = 0]
                 ELSE cons
         h  == nbHeld(c0)
     IN /\ IF ~IsStreaming
             THEN readAllStreaming
             ELSE UNCHANGED <<rpos, IsStreaming, prod, bufchan, st1, chunks, wk,
                              fieldsPerRecord, pool, egor, out, sent, pipelines, runs>>
        /\ cons' = IF c0.currrecord < Len(c0.records) THEN rdYield(c0)
                   ELSE IF h.what = "block" THEN rdYield(h.c)
                   ELSE IF h.what = "err" THEN [h.c EXCEPT !.pc = "clear"]
                   ELSE [h.c EXCEPT !.pc = "nb"]
  /\ UNCHANGED <<input, failAt, eofWithData, fn, cfg, mode, result, runs>>

\* one output received by the second loop of nextblock (lines 533-552), or
\* by clearchan
Rd_Recv ==
  /\ cons.pc \in {"nb", "clear"}
  /\ out.q # <<>>
  /\ LET v == Head(out.q)
     IN cons' =
          IF cons.pc = "clear" THEN cons
          ELSE IF v.sequence > cons.sequence
            THEN [cons EXCEPT !.hash = hashPut(@, v.sequence, v)]
          ELSE IF nbNext(v.sequence, cons.sequence)
            THEN LET c1 == [cons EXCEPT !.hash = hashDel(@, v.sequence),
                                        !.sequence = @ + 1]
                 IN IF v.err # NoErr THEN [c1 EXCEPT !.pc = "clear", !.err = v.err]
                    ELSE IF Len(v.records) = 0 THEN c1
                    ELSE rdYield([c1 EXCEPT !.records = v.records, !.currrecord = 0])
          ELSE cons
  /\ out' = [out EXCEPT !.q = Tail(@)]
  /\ UNCHANGED <<input, failAt, eofWithData, fn, cfg, mode, rpos, IsStreaming, prod, bufchan, st1, chunks, wk,
                 fieldsPerRecord, pool, egor, result, sent, pipelines, runs>>

\* the channel is closed and empty: nextblock returns io.EOF, or the error
\* clearchan was called for; Read returns it and the caller stops
Rd_End ==
  /\ cons.pc \in {"nb", "clear"}
  /\ out.q = <<>> /\ out.closed
  /\ cons' = [cons EXCEPT !.pc = "done"]
  /\ result' = [done |-> TRUE, records |-> cons.got,
                err |-> IF cons.pc = "clear" THEN cons.err ELSE EOF]
  /\ UNCHANGED <<input, failAt, eofWithData, fn, cfg, mode, rpos, IsStreaming, prod, bufchan, st1, chunks, wk,
                 fieldsPerRecord, pool, egor, out, sent, pipelines, runs>>

\* ------------------------------------------------------ the specification

Next ==
  \/ P_First \/ P_Read \/ P_Send \/ P_Close \/ P_Unset
  \/ S1_Recv \/ S1_Send \/ S1_Close
  \/ \E w \in Workers : W_Recv(w)
  \/ \E w \in Workers : W_Load1(w)
  \/ \E w \in Workers : W_Store(w)
  \/ \E w \in Workers : W_Load2(w)
  \/ \E w \in Workers : W_Send(w)
  \/ \E w \in Workers : W_Done(w)
  \/ Pool_Close
  \/ E_Read \/ E_Send \/ E_Close
  \/ RA_Call \/ RA_After \/ RA_Recv \/ RA_Return \/ RA_Drain \/ RA_Fail
  \/ Rd_Call \/ Rd_Recv \/ Rd_End

Spec == Init /\ [][Next]_vars

\* ------------------------------------------- two runs over the same input

\* ReadAll has returned: its outcome, and the sizes of the reads the
\* producer made, are noted, and a new Reader with the same settings is
\* set up over the same input
Rerun ==
  /\ mode = "ReadAll"
  /\ result.done
  /\ runs = <<>>
  /\ runs' = <<[records |-> result.records, err |-> result.err, reads |-> prod.reads]>>
  /\ rpos' = 0
  /\ IsStreaming' = FALSE
  /\ prod' = IdleProd
  /\ bufchan' = EmptyChan
  /\ st1' = IdleSt1
  /\ chunks' = EmptyChan
  /\ wk' = [w \in Workers |-> IdleWk]
  /\ fieldsPerRecord' = 0
  /\ pool' = "idle"
  /\ egor' = IdleEgor
  /\ out' = EmptyChan
  /\ cons' = IdleCons
  /\ result' = [done |-> FALSE, records |-> <<>>, err |-> NoErr]
  /\ sent' = <<>>
  /\ pipelines' = 0
  /\ UNCHANGED <<input, failAt, eofWithData, fn, cfg, mode>>

NextTwice == Next \/ Rerun

SpecTwice == Init /\ [][NextTwice]_vars

\* ------------------------------------------------------------ properties

\* the Reader's delimiters are ones readAllStreaming must reject
Rejected ==
  \/ cfg.Comma = cfg.Comment
  \/ ~validDelim(cfg.Comma)
  \/ (cfg.Comment # 0 /\ ~validDelim(cfg.Comment))

\* what encoding/csv alone returns for the whole input under the Reader's
\* settings, with fpr as its FieldsPerRecord
reference(fpr) == CsvReadAll(input, cfg.Comma, cfg.LazyQuotes, fpr)

\* ReadAll has returned a list of records and no error
raReturned == mode = "ReadAll" /\ result.done /\ result.err = NoErr

\* a Stage 2 worker replaced the records of its chunk by those of
\* encoding/csv, which parsed the payload without error
workerFellBack(i) ==
  sent[i].sequence = -1 /\ sent[i].src >= 0 /\ sent[i].err = NoErr

\* C1: the records ReadAll returns are in the order of the chunks they came
\* from: no record of chunk t stands before a record of chunk s < t,
\* whatever the order in which the workers' outputs arrived.
C1_ChunkOrder ==
  raReturned =>
    \A i, j \in 1..Len(cons.tags) : i < j => cons.tags[i] <= cons.tags[j]

\* C2: on an input encoding/csv reads without error, the calls of Read
\* return every record of the input once, in file order, and then io.EOF.
C2_ReadEveryRecord ==
  (mode = "Read" /\ result.done /\ ~Rejected
     /\ reference(cfg.FieldsPerRecord).err = NoErr) =>
    /\ result.err = EOF
    /\ result.records = reference(cfg.FieldsPerRecord).records

\* C3: when an output with an error has reached ReadAll, ReadAll returns
\* only once the output channel is closed and empty, with no records and
\* the error of the first such output, and no sender is left blocked on the
\* output channel; and an error that reached ReadAll is always returned.
C3_ErrorDrains ==
  (mode = "ReadAll" /\ result.done) =>
    /\ (\E i \in 1..Len(sent) : sent[i].err # NoErr) => result.err # NoErr
    /\ result.err # NoErr =>
         /\ result.records = <<>>
         /\ out.closed /\ out.q = <<>>
         /\ \A w \in Workers : wk[w].pc # "send"
         /\ egor.pc # "send"
         /\ \E i \in 1..Len(sent) :
              /\ sent[i].err = result.err
              /\ \A j \in 1..(i - 1) : sent[j].err = NoErr

\* ReadAll returned an error after it dropped an output sent after the
\* failing one
C3_Witness ==
  /\ mode = "ReadAll" /\ result.done /\ result.err # NoErr
  /\ \E i \in 1..Len(sent) : sent[i].err # NoErr /\ i < Len(sent)

\* C4: when an output with sequence -1 and an error was sent to Read, Read
\* returns that error to its caller.
C4_ReadReturnsError ==
  (mode = "Read" /\ result.done) =>
    \A i \in 1..Len(sent) :
      (sent[i].sequence = -1 /\ sent[i].err # NoErr) =>
        \E j \in 1..Len(sent) : sent[j].err # NoErr /\ result.err = sent[j].err

\* C5: with FieldsPerRecord 0, when a record of the input has another number
\* of fields than the first record, ReadAll returns an error, for every
\* split into chunks and every schedule.
C5_FieldCountPinned ==
  (mode = "ReadAll" /\ result.done /\ cfg.FieldsPerRecord = 0 /\ ~Rejected
     /\ reference(-1).err = NoErr
     /\ \E i \in 1..Len(reference(-1).records) :
          Len(reference(-1).records[i]) # Len(reference(-1).records[1])) =>
    result.err # NoErr

\* C6: with FieldsPerRecord > 0, when a record of the input has another
\* number of fields, ReadAll returns no records and the field-count error
\* that names the line of the first such record, counted from the start of
\* the whole input.
C6_FieldCountLine ==
  (mode = "ReadAll" /\ result.done /\ cfg.FieldsPerRecord > 0 /\ ~Rejected
     /\ reference(cfg.FieldsPerRecord).err.kind = "FieldCount") =>
    /\ result.records = <<>>
    /\ result.err = reference(cfg.FieldsPerRecord).err

\* C7: when a worker replaced its chunk's records by those of encoding/csv
\* and no output carried an error, ReadAll returns no error and the records
\* stand in the chunk's place, after the chunk's split row, with the
\* records of every other chunk: the list is the input's records in file
\* order.
C7_FallbackInPlace ==
  (mode = "ReadAll" /\ result.done
     /\ (\E i \in 1..Len(sent) : workerFellBack(i))
     /\ \A i \in 1..Len(sent) : sent[i].err = NoErr) =>
    /\ result.err = NoErr
    /\ result.records = reference(-1).records

\* C8: two runs of ReadAll over the same input return the same records
\* wherever the chunk boundaries fall (FieldsPerRecord < 0: the records
\* alone decide the outcome).
C8_SplitIndependent ==
  (mode = "ReadAll" /\ result.done /\ runs # <<>> /\ cfg.FieldsPerRecord < 0) =>
    /\ result.records = runs[1].records
    /\ result.err = runs[1].err

\* C9: two runs of ReadAll over the same input, with the same settings and
\* the same reads of the input, return the same records and the same error,
\* whatever the schedule of the goroutines.
C9_Deterministic ==
  (mode = "ReadAll" /\ result.done /\ runs # <<>>
     /\ prod.reads = runs[1].reads) =>
    /\ result.records = runs[1].records
    /\ result.err = runs[1].err

\* C10: with rejected delimiters readAllStreaming starts no goroutine of
\* the pipeline, reads no byte of the input, leaves IsStreaming false, and
\* its output channel carries one output {-1, nil, errInvalidDelim} and is
\* then closed.
C10_InvalidDelims ==
  Rejected =>
    /\ ~IsStreaming
    /\ rpos = 0
    /\ prod.pc = "idle" /\ st1.pc = "idle" /\ pool = "idle"
    /\ \A w \in Workers : wk[w].pc = "idle"
    /\ Len(sent) <= 1
    /\ \A i \in 1..Len(sent) :
         /\ sent[i].sequence = -1
         /\ sent[i].records = <<>>
         /\ sent[i].err = errInvalidDelim
    /\ out.closed => Len(sent) = 1
    /\ pipelines > 0 => egor.pc \in {"send", "close", "done"}

\* the output channel of a Reader with equal Comma and Comment is closed
\* and its one output has been received
C10_Witness ==
  /\ Rejected /\ cfg.Comma = cfg.Comment
  /\ pipelines > 0 /\ out.closed /\ out.q = <<>> /\ Len(sent) = 1

\* C11: when a read of the input source failed with an error other than
\* io.EOF, ReadAll returns that error: the failure is not reported as a
\* normal end of the input.
C11_ReadErrorReported ==
  (mode = "ReadAll" /\ result.done /\ prod.err = ErrRead) =>
    result.err = ErrRead

\* C12: once ReadAll has returned and no goroutine of the pipeline can take
\* a step any more, the byte channel, the chunk-info channel and the output
\* channel have all been closed: every goroutine ran to its close.
C12_AllClosed ==
  (mode = "ReadAll" /\ result.done /\ prod.pc # "idle" /\ ~ENABLED Next) =>
    (bufchan.closed /\ chunks.closed /\ out.closed)

\* C13: a call of ReadAll made after calls of Read returned records ends,
\* and on an input encoding/csv reads without error it returns no error and
\* the records Read has not returned: those Read returned, followed by
\* those ReadAll returns, are the records of the input in file order.
C13_ReadAllAfterRead ==
  (mode = "ReadThenAll" /\ cons.all) =>
    /\ cons.pc # "nil"
    /\ (result.done /\ failAt < 0 /\ ~Rejected
          /\ reference(cfg.FieldsPerRecord).err = NoErr) =>
         /\ result.err = NoErr
         /\ cons.got \o result.records = reference(cfg.FieldsPerRecord).records

\* the second half of C13 alone: ReadAll was called when IsStreaming was
\* false, so it did return
C13_RestOfRecords ==
  (mode = "ReadThenAll" /\ cons.all /\ result.done /\ failAt < 0 /\ ~Rejected
     /\ reference(cfg.FieldsPerRecord).err = NoErr) =>
    /\ result.err = NoErr
    /\ cons.got \o result.records = reference(cfg.FieldsPerRecord).records


\* ------------------------------------------ the quote-context resolver
\* preprocessMasksToMasks is an assembly routine outside the Go sources; it
\* is modelled by its contract (the Stage 1 Quote-Context Resolver) and
\* driven as testStage1PreprocessMasksToMasks drives it: two windows of 64
\* bytes, the quote mask of the second handed over as the next-window mask.

\* getBitMasks: one mask word per window, the positions holding byte b
getBitMasks(data, b) ==
  [w \in 1..NumWindows(Len(data)) |->
     {p \in 0..(WindowBits - 1) :
        /\ (w - 1) * WindowBits + p + 1 <= Len(data)
        /\ data[(w - 1) * WindowBits + p + 1] = b}]

\* C14 mutant: the region mask of a window that forgets the carried state
quotedRegionNoCarry(Q, quoted) ==
  {i \in 0..(WindowBits - 1) :
     i \notin Q /\ Cardinality({q \in Q : q < i}) % 2 = 1}

\* M: bit i is set iff the number of quotes below i, counted from the
\* carried state, is odd; the quotes themselves are not marked
quotedRegion(Q, quoted) ==
  {i \in 0..(WindowBits - 1) :
     /\ i \notin Q
     /\ (Cardinality({q \in Q : q < i}) + (IF quoted THEN 1 ELSE 0)) % 2 = 1}

\* The quote bits of one window in ascending order: inside a quoted region a
\* quote followed by a quote is an escaped pair, both bits are cleared and
\* the state is kept; when the first quote is bit 63 the second is bit 0 of
\* the next window and is removed from the next-window mask.  Any other
\* quote opens or closes a region.
RECURSIVE quoteScan(_, _, _)
quoteScan(Q, p, st) ==
  LET q == IF {j \in Q : j >= p} = {} THEN WindowBits
           ELSE CHOOSE j \in Q : j >= p /\ \A k \in Q : k >= p => j <= k
  IN IF q >= WindowBits THEN st
     ELSE IF st.quoted /\ q < WindowBits - 1 /\ (q + 1) \in Q
       THEN quoteScan(Q, q + 2, [st EXCEPT !.out = @ \ {q, q + 1}])
     ELSE IF st.quoted /\ q = WindowBits - 1 /\ 0 \in st.next
       THEN [st EXCEPT !.out = @ \ {q}, !.next = @ \ {0}]
     ELSE quoteScan(Q, q + 1, [st EXCEPT !.quoted = ~@])

\* C15 mutant: escaped pairs are looked for inside the window only
escapedQuotesNoCarry(Q, Qnext, quoted) ==
  [quoteScan(Q, 0, [out |-> Q, next |-> {}, quoted |-> quoted])
     EXCEPT !.next = Qnext]

\* Q', the next-window quote mask and the updated quoted state
escapedQuotes(Q, Qnext, quoted) ==
  quoteScan(Q, 0, [out |-> Q, next |-> Qnext, quoted |-> quoted])

\* refined (Q', S', R') of one window, *quoteMaskInNext and *quoted updated
preprocessMasksToMasks(quoteMaskIn, separatorMaskIn, carriageReturnMaskIn, quoteMaskInNext, quoted) ==
  LET e == escapedQuotes(quoteMaskIn, quoteMaskInNext, quoted)
      M == quotedRegion(quoteMaskIn, quoted)
  IN [quoteMaskOut          |-> e.out,
      separatorMaskOut      |-> separatorMaskIn \ M,
      carriageReturnMaskOut |-> carriageReturnMaskIn \ M,
      quoteMaskInNext       |-> e.next,
      quoted                |-> e.quoted]

TestData1 ==
  <<102, 105, 114, 115, 116, 95, 110, 97, 109, 101, 44, 108, 97, 115, 116,
    95, 110, 97, 109, 101, 44, 117, 115, 101, 114, 110, 97, 109, 101, 10,
    82, 82, 111, 98, 101, 114, 116, 116, 44, 34, 80, 105, 44, 101, 34, 44,
    114, 111, 98, 13, 10, 75, 101, 110, 110, 121, 44, 34, 104, 111, 13,
    10, 115, 111, 34, 44, 107, 101, 110, 110, 121, 10, 34, 82, 111, 98,
    101, 114, 116, 34, 44, 34, 71, 114, 105, 101, 115, 101, 109, 101, 114,
    34, 44, 34, 103, 114, 34, 34, 105, 34, 32, 32, 32, 32, 32, 32, 32, 32,
    32, 32, 32, 32, 32, 32, 32, 32, 32, 32, 32, 32, 32, 32, 32, 32, 32,
    32, 32, 32>>

TestExpected1 ==
  [quote |-> <<{39, 44, 57},
              {0, 8, 15, 17, 27, 29, 35}>>,
   separator |-> <<{10, 20, 38, 45, 56},
                   {1, 16, 28}>>,
   cr |-> <<{49},
            {}>>]

TestData2 ==
  <<82, 111, 98, 101, 44, 34, 80, 105, 44, 101, 34, 44, 114, 111, 98, 13,
    10, 75, 101, 110, 110, 121, 44, 34, 104, 111, 13, 10, 115, 111, 34,
    44, 107, 101, 110, 110, 121, 10, 34, 82, 111, 98, 101, 114, 116, 34,
    44, 34, 71, 114, 105, 101, 115, 101, 109, 101, 114, 34, 44, 34, 103,
    114, 34, 34, 105, 34, 32, 32, 32, 32, 32, 32, 32, 32, 32, 32, 32, 32,
    32, 32, 32, 32, 32, 32, 32, 32, 32, 32, 32, 32, 32, 32, 32, 32, 10,
    102, 105, 114, 115, 116, 95, 110, 97, 109, 101, 44, 108, 97, 115, 116,
    95, 110, 97, 109, 101, 44, 117, 115, 101, 114, 110, 97, 109, 101, 49,
    50, 51, 52>>

TestExpected2 ==
  [quote |-> <<{5, 10, 23, 30, 38, 45, 47, 57, 59},
              {1}>>,
   separator |-> <<{4, 11, 22, 31, 46, 58},
                   {41, 51}>>,
   cr |-> <<{15},
            {}>>]

TestData3 ==
  <<82, 111, 98, 101, 114, 44, 34, 80, 105, 44, 101, 34, 44, 114, 111, 98,
    13, 10, 75, 101, 110, 110, 121, 44, 34, 104, 111, 13, 10, 115, 111,
    34, 44, 107, 101, 110, 110, 121, 10, 34, 82, 111, 98, 101, 114, 116,
    34, 44, 34, 71, 114, 105, 101, 115, 101, 109, 101, 114, 34, 44, 34,
    103, 114, 34, 34, 105, 34, 32, 32, 32, 32, 32, 32, 32, 32, 32, 32, 32,
    32, 32, 32, 32, 32, 32, 32, 32, 32, 32, 32, 32, 32, 32, 32, 32, 32,
    10, 102, 105, 114, 115, 116, 95, 110, 97, 109, 101, 44, 108, 97, 115,
    116, 95, 110, 97, 109, 101, 44, 117, 115, 101, 114, 110, 97, 109, 101,
    49, 50, 51>>

TestExpected3 ==
  [quote |-> <<{6, 11, 24, 31, 39, 46, 48, 58, 60},
              {2}>>,
   separator |-> <<{5, 12, 23, 32, 47, 59},
                   {42, 52}>>,
   cr |-> <<{16},
            {}>>]

\* the three cases of TestStage1PreprocessMasksToMasks
MasksTests ==
  {[data |-> TestData1, expected |-> TestExpected1],
   [data |-> TestData2, expected |-> TestExpected2],
   [data |-> TestData3, expected |-> TestExpected3]}

\* Two windows of data: the test data, and six bytes of 'x', ',', '"' and
\* '\r' laid over the window boundary (bits 61..63 of the first window and
\* bits 0..2 of the second), after padding that opens a quoted field or not.
MasksInputs ==
  {t.data : t \in MasksTests}
    \cup {pre \o w \o X(61) :
            pre \in {X(61), <<QUOTE>> \o X(60)},
            w \in [1..6 -> {120, COMMA, QUOTE, CR}]}

\* testStage1PreprocessMasksToMasks, the call for the first window
Masks_First ==
  /\ fn.op = "masks" /\ fn.step = 0
  /\ LET quoteMasksIn == getBitMasks(fn.data, QUOTE)
         separatorMasksIn == getBitMasks(fn.data, COMMA)
         carriageReturnMasksIn == getBitMasks(fn.data, CR)
         r == preprocessMasksToMasks(quoteMasksIn[1], separatorMasksIn[1],
                                     carriageReturnMasksIn[1],
                                     quoteMasksIn[2], FALSE)
     IN fn' = [fn EXCEPT !.step = 1, !.quoteMaskNew = r.quoteMaskInNext,
                         !.quoted = r.quoted, !.out = <<r>>]
  /\ UNCHANGED <<input, failAt, eofWithData, cfg, mode, rpos, IsStreaming, prod, bufchan,
                 st1, chunks, wk, fieldsPerRecord, pool, egor, out, cons,
                 result, sent, pipelines, runs>>

\* testStage1PreprocessMasksToMasks, the call for the second window
Masks_Second ==
  /\ fn.op = "masks" /\ fn.step = 1
  /\ LET separatorMasksIn == getBitMasks(fn.data, COMMA)
         carriageReturnMasksIn == getBitMasks(fn.data, CR)
         r == preprocessMasksToMasks(fn.quoteMaskNew, separatorMasksIn[2],
                                     carriageReturnMasksIn[2], {}, fn.quoted)
     IN fn' = [fn EXCEPT !.step = 2, !.quoteMaskNew = r.quoteMaskInNext,
                         !.quoted = r.quoted, !.out = Append(@, r)]
  /\ UNCHANGED <<input, failAt, eofWithData, cfg, mode, rpos, IsStreaming, prod, bufchan,
                 st1, chunks, wk, fieldsPerRecord, pool, egor, out, cons,
                 result, sent, pipelines, runs>>

InitMasks ==
  /\ input = <<>> /\ cfg = Cfg(COMMA, 0, 0, FALSE) /\ failAt = -1
  /\ eofWithData = FALSE
  /\ mode = "ReadAll"
  /\ NewReader
  /\ \E d \in MasksInputs :
       fn = [op |-> "masks", data |-> d, step |-> 0, quoteMaskNew |-> {},
             quoted |-> FALSE, out |-> <<>>]

NextMasks == Masks_First \/ Masks_Second

SpecMasks == InitMasks /\ [][NextMasks]_vars

\* The quotes of a byte string read one byte at a time, from position i in
\* state quoted: a quote inside a quoted field that is followed by a quote
\* is the first byte of an escaped pair; any other quote opens or closes a
\* quoted field.
RECURSIVE QuoteWalk(_, _, _, _)
QuoteWalk(data, i, quoted, acc) ==
  LET j == NextIdx(data, i, {QUOTE})
  IN IF j > Len(data) THEN acc
     ELSE IF quoted /\ j < Len(data) /\ data[j + 1] = QUOTE
       THEN QuoteWalk(data, j + 2, quoted, [acc EXCEPT !.pairs = @ \cup {j}])
     ELSE QuoteWalk(data, j + 1, ~quoted, [acc EXCEPT !.turns = @ \cup {j}])

quoteWalk(data) == QuoteWalk(data, 1, FALSE, [pairs |-> {}, turns |-> {}])

\* the quoted state once the bytes 1 .. i of data have been read
quotedAfter(walk, i) == Cardinality({t \in walk.turns : t <= i}) % 2 = 1

\* the bit positions of window w whose byte lies inside a quoted field
insideOf(data, walk, w) ==
  {p \in 0..(WindowBits - 1) :
     LET i == (w - 1) * WindowBits + p + 1
     IN i <= Len(data) /\ data[i] # QUOTE /\ quotedAfter(walk, i)}

\* the bit positions of window w that hold a quote of an escaped pair
pairBitsOf(walk, w) ==
  {p \in 0..(WindowBits - 1) :
     LET i == (w - 1) * WindowBits + p + 1
     IN i \in walk.pairs \/ (i - 1) \in walk.pairs}

\* C14: with the quoted state carried from one window to the next, the
\* refined separator mask and the refined carriage-return mask of each
\* window are the raw masks with exactly the bits of the positions inside a
\* quoted field cleared, and they are the masks the test expects.
C14_MaskSuppression ==
  fn.op = "masks" =>
    LET walk == quoteWalk(fn.data)
        S == getBitMasks(fn.data, COMMA)
        R == getBitMasks(fn.data, CR)
    IN \A w \in 1..Len(fn.out) :
         /\ fn.out[w].separatorMaskOut = S[w] \ insideOf(fn.data, walk, w)
         /\ fn.out[w].carriageReturnMaskOut = R[w] \ insideOf(fn.data, walk, w)
         /\ \A t \in MasksTests : t.data = fn.data =>
              /\ fn.out[w].separatorMaskOut = t.expected.separator[w]
              /\ fn.out[w].carriageReturnMaskOut = t.expected.cr[w]

\* C14 witness: a quoted field open at the window boundary; the second
\* window has a separator cleared inside it and a separator kept after it
C14_Witness ==
  /\ fn.op = "masks" /\ fn.step = 2
  /\ fn.out[1].quoted
  /\ fn.out[2].separatorMaskOut # {}
  /\ fn.out[2].separatorMaskOut # getBitMasks(fn.data, COMMA)[2]
  /\ fn.out[1].carriageReturnMaskOut # getBitMasks(fn.data, CR)[1]

\* C15: both quotes of every escaped pair are cleared in the refined quote
\* mask and no other quote is; the quoted state after a window is the state
\* of the byte-wise reading, which a pair leaves as it was; the second
\* quote of a pair begun at bit 63 is removed from the next-window mask.
C15_EscapedPairs ==
  fn.op = "masks" =>
    LET walk == quoteWalk(fn.data)
        Q == getBitMasks(fn.data, QUOTE)
    IN /\ \A w \in 1..Len(fn.out) :
            /\ fn.out[w].quoteMaskOut = Q[w] \ pairBitsOf(walk, w)
            /\ fn.out[w].quoted = quotedAfter(walk, w * WindowBits)
            /\ \A t \in MasksTests : t.data = fn.data =>
                 fn.out[w].quoteMaskOut = t.expected.quote[w]
       /\ fn.step = 1 =>
            fn.quoteMaskNew =
              Q[2] \ (IF WindowBits \in walk.pairs THEN {0} ELSE {})

\* C15 witness: an escaped pair with its first quote at bit 63 of the first
\* window and its second at bit 0 of the second, both windows refined
C15_Witness ==
  /\ fn.op = "masks" /\ fn.step = 2
  /\ WindowBits \in quoteWalk(fn.data).pairs
  /\ (WindowBits - 1) \notin fn.out[1].quoteMaskOut
  /\ 0 \notin fn.out[2].quoteMaskOut

\* an escaped pair ending at bit 63 and one inside the second window
C15_PairAtEnd ==
  /\ fn.op = "masks" /\ fn.step = 2
  /\ (WindowBits - 1) \in quoteWalk(fn.data).pairs
  /\ (WindowBits + 2) \in quoteWalk(fn.data).pairs

\* ------------------------------------------------- chunking.go (scanner)

PREFIX_SIZE == 64 * 1024

\* a quote followed by a byte that is no quote, delimiter or newline
detectQoPattern(in) ==
  \E i \in 1..(Len(in) - 1) :
     in[i] = QUOTE /\ in[i + 1] \notin {QUOTE, COMMA, NL}

\* a quote preceded by a byte that is no quote, delimiter or newline
detectOqPattern(in) ==
  \E i \in 1..(Len(in) - 1) :
     in[i + 1] = QUOTE /\ in[i] \notin {QUOTE, COMMA, NL}

determineAmbiguity(prefixChunk) ==
  LET hasQo == detectQoPattern(prefixChunk)
      hasOq == detectOqPattern(prefixChunk)
  IN hasQo = FALSE /\ hasOq = FALSE

\* bytes.ContainsRune(s, r) for a one-byte rune
ContainsRune(s, r) == \E i \in 1..Len(s) : s[i] = r

deriveChunkResult(in) ==
  LET prefixSize == IF Len(in.chunk) < PREFIX_SIZE THEN Len(in.chunk)
                    ELSE PREFIX_SIZE
      chunkStatus ==
        IF ContainsRune(Slice(in.chunk, 0, prefixSize), QUOTE)
             /\ determineAmbiguity(Slice(in.chunk, 0, prefixSize))
        THEN "Ambigous" ELSE "Unambigous"
      nls == {i \in 1..Len(in.chunk) : in.chunk[i] = NL}
      widowSize == IF nls = {} THEN Len(in.chunk)
                   ELSE (CHOOSE i \in nls : \A k \in nls : i <= k) - 1
      orphanSize == IF nls = {} THEN Len(in.chunk)
                    ELSE Len(in.chunk)
                           - (CHOOSE i \in nls : \A k \in nls : i >= k)
  IN [part |-> in.part, widowSize |-> widowSize, orphanSize |-> orphanSize,
      status |-> chunkStatus]

\* every chunk of at most four bytes over '"', ',', '\n' and 'x'
ChunkInputs ==
  UNION {[1..n -> {QUOTE, COMMA, NL, 120}] : n \in 0..4}

\* chunkWorker: one chunkInput taken, its chunkResult sent
Chunk_Derive ==
  /\ fn.op = "chunk" /\ ~fn.done
  /\ fn' = [fn EXCEPT !.done = TRUE,
                      !.res = deriveChunkResult([part |-> fn.part,
                                                 chunk |-> fn.chunk])]
  /\ UNCHANGED <<input, failAt, eofWithData, cfg, mode, rpos, IsStreaming, prod, bufchan,
                 st1, chunks, wk, fieldsPerRecord, pool, egor, out, cons,
                 result, sent, pipelines, runs>>

InitChunk ==
  /\ input = <<>> /\ cfg = Cfg(COMMA, 0, 0, FALSE) /\ failAt = -1
  /\ eofWithData = FALSE
  /\ mode = "ReadAll"
  /\ NewReader
  /\ \E c \in ChunkInputs :
       fn = [op |-> "chunk", part |-> 0, chunk |-> c, done |-> FALSE,
             res |-> [part |-> 0, widowSize |-> 0, orphanSize |-> 0,
                      status |-> "Unambigous"]]

NextChunk == Chunk_Derive

SpecChunk == InitChunk /\ [][NextChunk]_vars

\* C16: the status is Unambigous when the prefix holds a Qo pattern or an oQ
\* pattern, and Ambigous when it holds neither.
C16_StatusByPatterns ==
  (fn.op = "chunk" /\ fn.done) =>
    LET prefix == Slice(fn.chunk, 0, Min(Len(fn.chunk), PREFIX_SIZE))
        other(b) == b \notin {QUOTE, COMMA, NL}
        Qo == \E i \in 1..(Len(prefix) - 1) :
                 prefix[i] = QUOTE /\ other(prefix[i + 1])
        oQ == \E i \in 1..(Len(prefix) - 1) :
                 other(prefix[i]) /\ prefix[i + 1] = QUOTE
    IN fn.res.status = IF Qo \/ oQ THEN "Unambigous" ELSE "Ambigous"

\* the status of the prefixes that hold a quote is the one C16 states
C16_WithQuote ==
  (fn.op = "chunk" /\ fn.done /\ ContainsRune(fn.chunk, QUOTE)) =>
     C16_StatusByPatterns

\* C17: the shared fields-per-record counter is written at most once in a
\* pipeline run: a worker stores only while the counter is 0.
C17_WrittenOnce ==
  \A w \in Workers : wk[w].pc = "store" => fieldsPerRecord = 0

\* C17, as a step: once positive the counter keeps its value in a run
C17_NeverOverwritten ==
  [][(fieldsPerRecord > 0 /\ pipelines' = pipelines /\ runs' = runs)
       => fieldsPerRecord' = fieldsPerRecord]_vars

\* the ChunkInfos in flight: Stage 1's at its send, those queued on chunks,
\* those the workers hold
infosInFlight ==
  {chunks.q[i] : i \in 1..Len(chunks.q)}
    \cup (IF st1.pc = "send" THEN {st1.send} ELSE {})
    \cup {wk[w].info : w \in {v \in Workers : wk[v].pc \in {"load1", "store", "load2", "send"}}}

\* the offset in the input of the chunk numbered k (k = 0, 1, ...)
RECURSIVE chunkOffset(_, _)
chunkOffset(reads, k) ==
  IF k = 0 THEN 0 ELSE chunkOffset(reads, k - 1) + reads[k]

\* the positions (1-based, in the input) of the row terminators outside
\* quoted fields that lie in the chunk numbered k
chunkNewlines(k) ==
  LET walk == quoteWalk(input)
      lo   == chunkOffset(prod.reads, k)
      hi   == chunkOffset(prod.reads, k + 1)
  IN {i \in (lo + 1)..hi : input[i] = NL /\ ~quotedAfter(walk, i)}

\* the bytes of chunk k before its first row terminator
headerBytes(k) ==
  LET N == chunkNewlines(k)
  IN Slice(input, chunkOffset(prod.reads, k),
           (CHOOSE i \in N : \A j \in N : i <= j) - 1)

\* the bytes of chunk k after its last row terminator
trailerBytes(k) ==
  LET N == chunkNewlines(k)
  IN Slice(input, CHOOSE i \in N : \A j \in N : i >= j,
           chunkOffset(prod.reads, k + 1))

\* C18: for every chunk k > 0 the split row dispatched with chunk k is the
\* trailer bytes of chunk k-1 followed by the header bytes of chunk k, and
\* the header bytes are what the ChunkInfo excludes from the payload (stated
\* for the chunks that hold a row terminator outside quotes).
C18_SplitRow ==
  (pipelines = 1 /\ failAt < 0) =>
    \A info \in infosInFlight :
      (/\ info.sequence > 0
       /\ chunkNewlines(info.sequence - 1) # {}
       /\ chunkNewlines(info.sequence) # {}) =>
        /\ info.splitRow =
             trailerBytes(info.sequence - 1) \o headerBytes(info.sequence)
        /\ info.header = Len(headerBytes(info.sequence))

\* the same for the chunks whose predecessor has its last row terminator
\* after its first window
C18_LateTerminator ==
  (pipelines = 1 /\ failAt < 0) =>
    \A info \in infosInFlight :
      (/\ info.sequence > 0
       /\ chunkNewlines(info.sequence - 1) # {}
       /\ chunkNewlines(info.sequence) # {}
       /\ Len(trailerBytes(info.sequence - 1))
            < prod.reads[info.sequence] - WindowBits) =>
        /\ info.splitRow =
             trailerBytes(info.sequence - 1) \o headerBytes(info.sequence)
        /\ info.header = Len(headerBytes(info.sequence))

\* no output numbered -1 (an error or a fallback) was sent on out
noErrorSent == \A i \in 1..Len(sent) : sent[i].sequence # -1

\* the ChunkInfos dispatched and not yet answered, one entry per holder
infosHeld ==
  chunks.q
    \o (IF st1.pc = "send" THEN <<st1.send>> ELSE <<>>)
    \o (IF wk[1].pc \in {"load1", "store", "load2", "send"}
          THEN <<wk[1].info>> ELSE <<>>)
    \o (IF wk[2].pc \in {"load1", "store", "load2", "send"}
          THEN <<wk[2].info>> ELSE <<>>)

\* C19: in a run without errors Stage 1 dispatches one ChunkInfo per chunk
\* received, numbered 0, 1, ... in production order; each ChunkInfo is held
\* by one worker at most and answered once; one RecordsOutput per sequence
\* number is sent on out, and at the end every chunk has its output.
C19_OnePerChunk ==
  noErrorSent =>
    /\ \A i, j \in 1..Len(sent) :
         i # j => sent[i].sequence # sent[j].sequence
    /\ \A i \in 1..Len(sent) :
         sent[i].sequence \in 0..(st1.sequence - 1)
           /\ sent[i].src = sent[i].sequence
    /\ \A i, j \in 1..Len(infosHeld) :
         i # j => infosHeld[i].sequence # infosHeld[j].sequence
    /\ \A i \in 1..Len(infosHeld) :
         /\ infosHeld[i].sequence \in 0..(st1.sequence - 1)
         /\ \A j \in 1..Len(sent) : sent[j].sequence # infosHeld[i].sequence
         /\ (pipelines = 1 /\ infosHeld[i].chunk # <<>>) =>
              infosHeld[i].chunk =
                Slice(input, chunkOffset(prod.reads, infosHeld[i].sequence),
                      chunkOffset(prod.reads, infosHeld[i].sequence + 1))
    /\ st1.sequence = Len(sent) + Len(infosHeld)
    /\ st1.sequence + Len(bufchan.q) <= Len(prod.emitted)
    /\ (mode = "ReadAll" /\ result.done) =>
         /\ st1.sequence = Len(prod.emitted)
         /\ {sent[i].sequence : i \in 1..Len(sent)} = 0..(Len(prod.emitted) - 1)

\* C19 witness: ReadAll has returned after three chunks and no error
C19_Witness ==
  /\ mode = "ReadAll" /\ result.done /\ noErrorSent
  /\ Len(prod.reads) >= 3
  /\ Len(sent) = Len(prod.reads)

\* a goroutine of the streaming pipeline is running, or an output of it is
\* still on the output channel
pipelineActive ==
  /\ pool # "idle"
  /\ \/ prod.pc \notin {"idle", "done"}
     \/ st1.pc \notin {"idle", "done"}
     \/ \E w \in Workers : wk[w].pc \notin {"idle", "done"}
     \/ pool = "wait"
     \/ out.q # <<>>

\* C20: IsStreaming is true as long as a goroutine of the pipeline is
\* running or one of its records is undelivered.
C20_ActiveIsStreaming == pipelineActive => IsStreaming

\* C20, as a step: no pipeline is started while one is active
C20_NoSecondPipeline ==
  [][(pipelines' = pipelines + 1 /\ pipelines >= 1) => ~pipelineActive]_vars

\* ------------------------------------------- ReadAll, with fair scheduling
\* One call of ReadAll on a pipeline whose goroutines the Go scheduler runs
\* whenever they can take a step: every statement at which a goroutine
\* stays able to run is eventually executed (weak fairness of each step of
\* each goroutine, and of the caller inside ReadAll).

InitDrain ==
  /\ \E sc \in {[input |-> InMany,   cfg |-> Cfg(COMMA, 0, 2, FALSE)],
                [input |-> InNarrow, cfg |-> Cfg(COMMA, 0, 2, FALSE)],
                [input |-> InSmall,  cfg |-> Cfg(COMMA, 0, 0, FALSE)],
                [input |-> InPlain,  cfg |-> Cfg(COMMA, 0, 0, FALSE)]} :
        input = sc.input /\ cfg = sc.cfg
  /\ failAt = -1 /\ eofWithData = FALSE
  /\ mode = "ReadAll"
  /\ NewReader
  /\ fn = NoFn

NextDrain ==
  \/ P_First \/ P_Read \/ P_Send \/ P_Close \/ P_Unset
  \/ S1_Recv \/ S1_Send \/ S1_Close
  \/ \E w \in Workers : W_Recv(w)
  \/ \E w \in Workers : W_Load1(w)
  \/ \E w \in Workers : W_Store(w)
  \/ \E w \in Workers : W_Load2(w)
  \/ \E w \in Workers : W_Send(w)
  \/ \E w \in Workers : W_Done(w)
  \/ Pool_Close
  \/ RA_Call \/ RA_Recv \/ RA_Return \/ RA_Drain \/ RA_Fail

\* the producer goroutine (lines 179-218)
Producer == P_First \/ P_Read \/ P_Send \/ P_Close \/ P_Unset
\* Stage 1 at its send or at the end of its loop (lines 246, 293-295)
Stage1Out == S1_Send \/ S1_Close
\* a worker at a step of ensureFieldsPerRecord, at its send or at its end
WorkerStep(w) == W_Load1(w) \/ W_Store(w) \/ W_Send(w) \/ W_Done(w)
\* the caller inside ReadAll (lines 428-468)
ReadAllCall == RA_Call \/ RA_Recv \/ RA_Return \/ RA_Drain \/ RA_Fail

\* Stage 1 can receive a chunk; a worker can receive a ChunkInfo; a worker
\* is at the second load of ensureFieldsPerRecord.  Each is the condition
\* under which the step of that name can be taken, and the step changes the
\* state whenever it is taken.
S1_RecvReady == st1.pc = "recv" /\ bufchan.q # <<>>
W_RecvReady(w) == wk[w].pc = "recv" /\ chunks.q # <<>>
W_Load2Ready(w) == wk[w].pc = "load2"

\* weak fairness of a step A that can be taken exactly when Ready holds
S1_RecvFair == []<>(~S1_RecvReady) \/ []<><<S1_Recv>>_vars
W_RecvFair == \A w \in Workers : []<>(~W_RecvReady(w)) \/ []<><<W_Recv(w)>>_vars
W_Load2Fair == \A w \in Workers : []<>(~W_Load2Ready(w)) \/ []<><<W_Load2(w)>>_vars

SpecDrain ==
  /\ InitDrain /\ [][NextDrain]_vars
  /\ WF_vars(Producer)
  /\ WF_vars(Stage1Out)
  /\ S1_RecvFair
  /\ \A w \in Workers : WF_vars(WorkerStep(w))
  /\ W_RecvFair
  /\ W_Load2Fair
  /\ WF_vars(Pool_Close)
  /\ WF_vars(ReadAllCall)

\* a Stage 2 worker of the streaming pipeline has sent an output numbered -1
\* (an error or a fallback) and has left its loop
workerStopped ==
  pool # "idle" /\ \E i \in 1..Len(sent) : sent[i].sequence = -1

\* the producer and Stage 1 have terminated and IsStreaming is false
pipelineDrained == prod.pc = "done" /\ st1.pc = "done" /\ ~IsStreaming

\* C21: after a Stage 2 worker has stopped because of an error, the producer
\* and Stage 1 eventually terminate and IsStreaming returns to false.
C21_PipelineDrains == workerStopped ~> pipelineDrained

\* after a worker has stopped, the pipeline drains or the other worker
\* stops too
C21_OneWorkerLeft ==
  workerStopped ~> (pipelineDrained \/ \A w \in Workers : wk[w].pc = "done")

\* ReadAll itself always returns
C21_ReadAllReturns == <>result.done

\* the bytes of a sequence of chunks, in order
RECURSIVE concatBufs(_)
concatBufs(cs) ==
  IF cs = <<>> THEN <<>> ELSE Head(cs).buf \o concatBufs(Tail(cs))

\* the producer goroutine has ended
producerEnded == prod.pc \in {"done", "panic"}

\* what C22 states of the chunks sent on the byte channel
emittedWhole ==
  /\ \A i \in 1..(Len(prod.emitted) - 1) : ~prod.emitted[i].last
  /\ concatBufs(prod.emitted) = SubSeq(input, 1, Len(concatBufs(prod.emitted)))
  /\ producerEnded =>
       /\ concatBufs(prod.emitted) = input
       /\ prod.emitted # <<>> /\ prod.emitted[Len(prod.emitted)].last
       /\ bufchan.closed
  /\ bufchan.closed => producerEnded \/ prod.pc = "unset"

\* C22: on a non-empty input and a source that does not fail, the chunks
\* sent on the byte channel, in send order, are the input; the final chunk
\* and no other has last = true; the channel is closed after it.
C22_ChunksAreInput ==
  (mode = "ReadAll" /\ pool # "idle" /\ failAt < 0 /\ input # <<>>) =>
    emittedWhole

\* the same for the sources that return io.EOF with no bytes
C22_EofAlone ==
  (mode = "ReadAll" /\ pool # "idle" /\ failAt < 0 /\ input # <<>>
     /\ ~eofWithData) =>
    emittedWhole

\* ------------------------------------------------ ReadAll, one slow worker
\* One call of ReadAll on an input of twelve chunks, under the schedules in
\* which the first worker, once it holds a ChunkInfo, takes its next step
\* only after the producer and Stage 1 have ended and the output channel is
\* empty (a goroutine may be delayed for any time); the other goroutines
\* are scheduled freely.

\* twelve chunks of two rows of one field each
InBacklog == [i \in 1..(12 * 2 * WindowBits) |-> IF i % WindowBits = 0 THEN NL ELSE 120]

InitSlow ==
  /\ input = InBacklog /\ cfg = Cfg(COMMA, 0, 0, FALSE)
  /\ failAt = -1 /\ eofWithData = FALSE
  /\ mode = "ReadAll"
  /\ NewReader
  /\ fn = NoFn

\* worker w is not being delayed
scheduled(w) == w # 1 \/ (prod.pc = "done" /\ st1.pc = "done" /\ out.q = <<>>)

NextSlow ==
  \/ P_First \/ P_Read \/ P_Send \/ P_Close \/ P_Unset
  \/ S1_Recv \/ S1_Send \/ S1_Close
  \/ \E w \in Workers : W_Recv(w)
  \/ \E w \in Workers : scheduled(w) /\ W_Load1(w)
  \/ \E w \in Workers : scheduled(w) /\ W_Store(w)
  \/ \E w \in Workers : scheduled(w) /\ W_Load2(w)
  \/ \E w \in Workers : scheduled(w) /\ W_Send(w)
  \/ \E w \in Workers : W_Done(w)
  \/ Pool_Close
  \/ RA_Call \/ RA_Recv \/ RA_Return

SpecSlow == InitSlow /\ [][NextSlow]_vars

\* the chunks read from the input whose records ReadAll has not yet
\* appended to its result: in the channels, held by the producer, Stage 1
\* or a worker, or pending in the reorder buffer
chunksInFlight == Len(prod.reads) - cons.sequence

\* the chunks the channels and the goroutines of the pipeline have room
\* for: three channels, one chunk held by each worker and by Stage 1, two
\* by the producer (the one it sends and the one it has just read)
pipelineRoom == 3 * ChanCap + Cores + 3

\* C23: the number of chunks read and not yet appended to the result of
\* ReadAll never exceeds what the channels and the goroutines hold, whatever
\* the number of chunks of the input.
C23_BoundedInFlight ==
  (mode = "ReadAll" /\ pool # "idle" /\ ~result.done /\ noErrorSent) =>
    chunksInFlight <= pipelineRoom

\* the reorder buffer of ReadAll alone holds at most what the output channel
\* and the workers can deliver out of order
C23_BoundedReorder ==
  (mode = "ReadAll" /\ pool # "idle" /\ ~result.done /\ noErrorSent) =>
    Cardinality(DOMAIN cons.hash) <= ChanCap + Cores

\* outside the reorder buffer the chunks in flight are bounded
C23_BoundedOutsideReorder ==
  (mode = "ReadAll" /\ pool # "idle" /\ ~result.done /\ noErrorSent) =>
    chunksInFlight - Cardinality(DOMAIN cons.hash) <= pipelineRoom

\* ------------------------------------------------- chunking.go (ChunkBlob)
\* ChunkBlob is modelled with its goroutines: the pusher that cuts the blob,
\* one chunkWorker per CPU, the goroutine that waits for the workers, and
\* the caller's loop over the results.  Both channels are unbuffered, so a
\* send and its receive are one step.  fn.pushed lists the chunkInputs sent
\* and fn.printed the chunkResults received, in order (history only).

\* every variable but fn: ChunkBlob touches no Reader
notFn == <<input, failAt, eofWithData, cfg, mode, rpos, IsStreaming, prod, bufchan, st1, chunks, wk, fieldsPerRecord, pool, egor, out, cons, result, sent, pipelines, runs>>

\* every blob of at most four bytes over '"', '\n' and 'x'
BlobInputs == UNION {[1..n -> {QUOTE, NL, 120}] : n \in 0..4}

\* chunk sizes: below, at and above the length of the blob
ChunkSizes == {1, 2, 3, 5}

NoChunkInput == [part |-> -1, chunk |-> <<>>]

IdleChunkWorker == [pc |-> "idle", in |-> NoChunkInput]

InitBlob ==
  /\ input = <<>> /\ cfg = Cfg(COMMA, 0, 0, FALSE) /\ failAt = -1
  /\ eofWithData = FALSE
  /\ mode = "ReadAll"
  /\ NewReader
  /\ \E b \in BlobInputs, k \in ChunkSizes :
       fn = [op |-> "blob", blob |-> b, chunkSize |-> k, pc |-> "call",
             push |-> [pc |-> "idle", part |-> 0, start |-> 0, end |-> 0],
             cw |-> [w \in Workers |-> IdleChunkWorker],
             wg |-> 0, chunksClosed |-> FALSE, resultsClosed |-> FALSE,
             pushed |-> <<>>, printed |-> <<>>]

\* the whole rest of the blob as one slice (the size limit dropped)
sliceEndWhole(start, chunkSize, n) == n

\* end := start + chunkSize, cut back to the length of the blob
sliceEnd(start, chunkSize, n) ==
  IF start + chunkSize > n THEN n ELSE start + chunkSize

\* wg.Add(1) and `go` once per CPU, then the pusher and the waiting
\* goroutine are started; the caller goes on to its loop over results
CB_Start ==
  /\ fn.op = "blob" /\ fn.pc = "call"
  /\ fn' = [fn EXCEPT !.pc = "range", !.wg = Cores,
                      !.cw = [w \in Workers |-> [IdleChunkWorker EXCEPT !.pc = "recv"]],
                      !.push = [@ EXCEPT !.pc = "cut"]]
  /\ UNCHANGED notFn

\* the pusher computes the end of the slice that starts at start
CB_Cut ==
  /\ fn.op = "blob" /\ fn.push.pc = "cut"
  /\ fn' = [fn EXCEPT !.push = [@ EXCEPT !.pc = "send",
                                         !.end = sliceEnd(fn.push.start, fn.chunkSize, Len(fn.blob))]]
  /\ UNCHANGED notFn

\* chunks <- chunkInput{part, blob[start:end]}, received by worker w; the
\* pusher then leaves its loop (end >= len(blob)) or moves to the next part
CB_Push(w) ==
  /\ fn.op = "blob" /\ fn.push.pc = "send" /\ fn.cw[w].pc = "recv"
  /\ LET in == [part |-> fn.push.part,
                chunk |-> Slice(fn.blob, fn.push.start, fn.push.end)]
     IN fn' = [fn EXCEPT
                 !.cw[w] = [pc |-> "derive", in |-> in],
                 !.pushed = Append(@, in),
                 !.push = IF fn.push.end >= Len(fn.blob)
                          THEN [@ EXCEPT !.pc = "close"]
                          ELSE [@ EXCEPT !.pc = "cut", !.part = @ + 1,
                                         !.start = @ + fn.chunkSize]]
  /\ UNCHANGED notFn

\* close(chunks)
CB_CloseChunks ==
  /\ fn.op = "blob" /\ fn.push.pc = "close"
  /\ fn' = [fn EXCEPT !.push = [@ EXCEPT !.pc = "done"],
                      !.chunksClosed = TRUE]
  /\ UNCHANGED notFn

\* results <- deriveChunkResult(in), received by the caller's loop, which
\* prints it
CB_Result(w) ==
  /\ fn.op = "blob" /\ fn.cw[w].pc = "derive" /\ fn.pc = "range"
  /\ fn' = [fn EXCEPT !.cw[w] = [pc |-> "recv", in |-> NoChunkInput],
                      !.printed = Append(@, deriveChunkResult(fn.cw[w].in))]
  /\ UNCHANGED notFn

\* the worker's range over chunks ends on the closed channel; wg.Done()
CB_WorkerDone(w) ==
  /\ fn.op = "blob" /\ fn.cw[w].pc = "recv" /\ fn.chunksClosed
  /\ fn' = [fn EXCEPT !.cw[w] = [@ EXCEPT !.pc = "done"], !.wg = @ - 1]
  /\ UNCHANGED notFn

\* wg.Wait() returns; close(results)
CB_CloseResults ==
  /\ fn.op = "blob" /\ fn.pc # "call" /\ fn.wg = 0 /\ ~fn.resultsClosed
  /\ fn' = [fn EXCEPT !.resultsClosed = TRUE]
  /\ UNCHANGED notFn

\* the caller's range over results ends on the closed channel
CB_Return ==
  /\ fn.op = "blob" /\ fn.pc = "range" /\ fn.resultsClosed
  /\ fn' = [fn EXCEPT !.pc = "returned"]
  /\ UNCHANGED notFn

NextBlob ==
  \/ CB_Start \/ CB_Cut \/ CB_CloseChunks \/ CB_CloseResults \/ CB_Return
  \/ \E w \in Workers : CB_Push(w) \/ CB_Result(w) \/ CB_WorkerDone(w)

\* a goroutine that can run is run in the end
SpecBlob == InitBlob /\ [][NextBlob]_vars /\ WF_vars(NextBlob)

\* the slices the claim describes: the i-th has number i - 1 and holds the
\* bytes (i - 1) * chunkSize .. i * chunkSize of the blob, cut at its end
sliceOf(blob, chunkSize, i) ==
  [part |-> i - 1,
   chunk |-> Slice(blob, (i - 1) * chunkSize, Min(i * chunkSize, Len(blob)))]

slicesOf(blob, chunkSize) ==
  LET count == IF blob = <<>> THEN 1
               ELSE (Len(blob) + chunkSize - 1) \div chunkSize
  IN [i \in 1..count |-> sliceOf(blob, chunkSize, i)]

\* the chunkInputs sent so far are the first slices of the blob
slicesSoFar ==
  /\ Len(fn.pushed) <= Len(slicesOf(fn.blob, fn.chunkSize))
  /\ \A i \in 1..Len(fn.pushed) :
        fn.pushed[i] = sliceOf(fn.blob, fn.chunkSize, i)

\* every result received is the result of a slice sent, once per slice
resultsSoFar ==
  /\ \A j \in 1..Len(fn.printed) :
        /\ fn.printed[j].part + 1 \in 1..Len(fn.pushed)
        /\ fn.printed[j] = deriveChunkResult(fn.pushed[fn.printed[j].part + 1])
  /\ \A j, k \in 1..Len(fn.printed) :
        fn.printed[j].part = fn.printed[k].part => j = k

blobDone ==
  /\ fn.pc = "returned" /\ fn.resultsClosed /\ fn.chunksClosed
  /\ fn.push.pc = "done" /\ \A w \in Workers : fn.cw[w].pc = "done"
  /\ fn.pushed = slicesOf(fn.blob, fn.chunkSize)
  /\ Len(fn.printed) = Len(fn.pushed)
  /\ resultsSoFar

\* C24: for every blob and chunk size >= 1, ChunkBlob comes to return with
\* the results channel closed and every worker finished, having sent the
\* slices 0, 1, 2, ... of chunkSize bytes each (the last one shorter, one
\* empty slice for the empty blob) that make up the blob, and having
\* received exactly one chunkResult per slice.
C24_ChunkBlob == <>(fn.op = "blob" /\ blobDone)

\* on the way the slices sent and the results received are the claimed ones
C24_Progress == fn.op = "blob" => (slicesSoFar /\ resultsSoFar)

\* a blob cut into a full slice and a shorter last one, the result of the
\* second slice received before that of the first
C24_Witness ==
  /\ fn.op = "blob" /\ blobDone
  /\ Len(fn.pushed) = 2 /\ Len(fn.pushed[1].chunk) = fn.chunkSize
  /\ Len(fn.pushed[2].chunk) \in 1..(fn.chunkSize - 1)
  /\ fn.printed[1].part = 1

\* the empty blob: one empty slice, one result
C24_EmptyBlob ==
  /\ fn.op = "blob" /\ blobDone /\ fn.blob = <<>>
  /\ fn.pushed = <<[part |-> 0, chunk |-> <<>>]>> /\ Len(fn.printed) = 1

====
